---- MODULE Spec2Model ----
(***************************************************************************)
(* Model of the signaling broker of p2p-console-viewer                     *)
(* (workplaces/p2p-console-viewer-server/server.js).                       *)
(*                                                                         *)
(* Connections are numbered in the order in which they arrive: the id the  *)
(* broker draws with uuidv4() is fresh and opaque, so the n-th connection  *)
(* is given id n, and the insertion order of the `clients` Map is the      *)
(* ascending order of ids.  A JavaScript Set keeps insertion order, so a   *)
(* room is a duplicate-free sequence of ids.  Every handler of the broker  *)
(* runs to completion on the event loop: one handler is one action.        *)
(***************************************************************************)
EXTENDS Integers, Sequences, FiniteSets, TLC

\* ---------------------------------------------------------------- bounds
\* number of connections that arrive during a run
NumConns == 3

\* ------------------------------------------------------------ vocabulary
\* clientInfo.room === null (falsy; never a valid room name)
NULL == <<>>
\* the `to` / `from` field is absent from the parsed object (undefined)
ABSENT == -1
\* the `to` field is the empty string (falsy)
EMPTY == 0
\* an id no connection of the run ever gets
UNKNOWN == NumConns + 1
\* typeof parsed.type !== "string"
NOTSTRING == "<not-a-string>"

Conn == 1..NumConns

\* characters a room name may contain: /^[A-Za-z0-9\-_]{1,64}$/
NameChars == {"a", "b", "Z", "7", "-", "_", "p", "r", "o", "t"}
MaxRoomNameLen == 64

R1 == <<"a">>
\* a second room; its name, __proto__, matches the name pattern
R2 == <<"_", "_", "p", "r", "o", "t", "o", "_", "_">>
LongName == [i \in 1..(MaxRoomNameLen + 1) |-> "a"]

\* values the `room` field of a join-room frame takes
RoomInputs ==
  { [isStr |-> TRUE, chars |-> R1],
    [isStr |-> TRUE, chars |-> R2],
    [isStr |-> TRUE, chars |-> <<>>],
    [isStr |-> TRUE, chars |-> <<"a", " ">>],
    [isStr |-> TRUE, chars |-> LongName],
    [isStr |-> FALSE, chars |-> <<>>] }

NoRoomField == [isStr |-> FALSE, chars |-> <<>>]

\* environment configurations the broker is started with
\* (guardrail config, env overrides)
Configs ==
  { [MAX_CLIENTS |-> 2, MAX_ROOM_CLIENTS |-> 1,
     ALLOWED_ORIGINS |-> <<"https://app">>, WS_SECRET |-> "s3cret"],
    [MAX_CLIENTS |-> 3, MAX_ROOM_CLIENTS |-> 3,
     ALLOWED_ORIGINS |-> <<>>, WS_SECRET |-> ""] }

Origins == {"https://app", "https://evil"}
Tokens == {"s3cret", ""}

VARIABLES
  env,       \* the configuration read at startup
  conns,     \* number of connections that have arrived
  ws,        \* ws.readyState of every connection
  hnd,       \* the connection was admitted: its handlers are attached
  closeCode, \* the code the broker closed the connection with (0: none)
  clients,   \* Map id -> client record
  rooms,     \* Map room name -> Set of ids (in insertion order)
  sent,      \* the frames the running handler wrote, in order
  op,        \* the event the running handler serves
  wire,      \* per connection: the first frame written to it, how many
             \* `id` frames were written to it, and whether a ping written
             \* to it still waits for its pong to be processed
  now,       \* what Date.now() returns
  rate,      \* the token bucket of one client: clientInfo.rate
  ltime,     \* time as the limiter has measured it: the sum of its `elapsed`
  passed,    \* per limiter time: how many frames rateAllow let pass then
  sinceLast, \* time that really passed since the client's previous frame
  refill,    \* the last call of rateAllow: tokens credited, and the time
             \* that had really passed
  inbox,     \* per connection: the numbered frames the client has sent and
             \* the broker has not yet read
  sentNo,    \* per connection: how many numbered frames the client has sent
  delivered, \* per receiver and sender: the numbers of the sender's
             \* frames written to the receiver's stream, in the order written
  closeEvent, \* how WebSocket.close() delivers the close event: "sync",
             \* before it returns (the test doubles do), or "queued" (a
             \* browser does); "none" while no client has been constructed
  socks,     \* every WebSocket the connector has created, in creation order
  socket,    \* WebSocketConnector.ws: the socket of the last connect(), 0: null
  shouldReconnect,     \* WebSocketConnector.shouldReconnect
  timers,    \* the sockets whose close handler set a reconnect timer that
             \* is still pending
  oneTimeOpenHandlers, \* WebSocketConnector.oneTimeOpenHandlers
  runs,      \* per whenReady() call: how often its callback was invoked
  nreg,      \* number of whenReady() calls made by the application
  prevented, \* disconnect(true) was called and neither connect(),
             \* forceReconnect() nor enableAutoReconnect() since
  currentRoom, \* P2PSignalingClient.currentRoom
  console,   \* console.log: 0 is the platform's own function, i the
             \* wrapper that the patch() of interceptor i installed
  originalMethods, \* per interceptor: ConsoleInterceptor.originalMethods.log
  isPatched, \* per interceptor: ConsoleInterceptor.isPatched
  called,    \* the last console.log() call, if nothing was patched or
             \* unpatched since: whose callbacks it invoked, and whether
             \* it ended in unbounded recursion
  outbox,    \* per connection: the frames the broker has written to it that
             \* its P2PSignalingClient has not yet handled, in order
  view       \* per connection: currentRoom and roomPeers of its
             \* P2PSignalingClient

\* the rate limiter's part of the state
rvars == <<now, rate, ltime, passed, sinceLast, refill>>

\* the frames in flight and their order
fvars == <<inbox, sentNo, delivered>>

\* the broker's part of the state
bvars == <<env, conns, ws, hnd, closeCode, clients, rooms, sent, op, wire>>

\* the client library: a WebSocketConnector and the P2PSignalingClient
\* that owns it
cvars == <<closeEvent, socks, socket, shouldReconnect, timers,
           oneTimeOpenHandlers, runs, nreg, prevented, currentRoom>>

\* the console and its interceptors
ivars == <<console, originalMethods, isPatched, called>>

\* the signaling clients of the connections, as far as rooms go
pvars == <<outbox, view>>

\* everything that is not the broker's
libvars == <<cvars, ivars, pvars>>

vars == <<env, conns, ws, hnd, closeCode, clients, rooms, sent, op, wire,
          now, rate, ltime, passed, sinceLast, refill, inbox, sentNo, delivered,
          closeEvent, socks, socket, shouldReconnect, timers,
          oneTimeOpenHandlers, runs, nreg, prevented, currentRoom,
          console, originalMethods, isPatched, called, outbox, view>>

MAX_CLIENTS == env.MAX_CLIENTS
MAX_ROOM_CLIENTS == env.MAX_ROOM_CLIENTS
ALLOWED_ORIGINS == env.ALLOWED_ORIGINS
WS_SECRET == env.WS_SECRET

\* no handler is running: the event loop waits for the next event
IDLE == [kind |-> "idle"]

\* ------------------------------------------------------------ sequences
Range(s) == { s[i] : i \in 1..Len(s) }

\* Set.prototype.delete on an insertion-ordered set
SetDelete(s, x) == SelectSeq(s, LAMBDA y : y # x)

\* Set.prototype.add on an insertion-ordered set
SetAdd(s, x) == IF x \in Range(s) THEN s ELSE Append(s, x)

\* Map.prototype.delete
MapDelete(m, k) == [x \in (DOMAIN m) \ {k} |-> m[x]]

\* the broker state a handler works on
State == [clients |-> clients, rooms |-> rooms, ws |-> ws, sent |-> <<>>,
          pinged |-> {}, bad |-> {}]

\* ... when ws.send() throws on the streams of `bad`
StateBad(bad) == [State EXCEPT !.bad = bad]

\* nothing was written to the connection yet
NoFrame == [type |-> "<none>"]

\* JSON.stringify({type: "id", id})
IdFrame(id) == [type |-> "id", id |-> id]

IsIdFrame(fr) == DOMAIN fr = {"type", "id"} /\ fr.type = "id"

\* what the streams have seen once the frames of `s` are written
Written(w, s) ==
  [c \in Conn |->
     LET mine == SelectSeq(s, LAMBDA e : e.to = c)
     IN [first |-> IF w[c].first = NoFrame /\ Len(mine) > 0
                     THEN mine[1].frame ELSE w[c].first,
         ids |-> w[c].ids + Cardinality({i \in 1..Len(mine) : IsIdFrame(mine[i].frame)}),
         ping |-> w[c].ping]]

\* what the streams have seen once the pings to the connections of P are
\* written as well
Pinged(w, P) == [c \in Conn |-> IF c \in P THEN [w[c] EXCEPT !.ping = TRUE] ELSE w[c]]

\* ----------------------------------------------------------- primitives
\* ws.terminate(): the socket is destroyed, the close event follows
terminate(w, id) == IF w[id] = "OPEN" THEN [w EXCEPT ![id] = "CLOSING"] ELSE w

\* mutant: the state of the stream is not looked at
safeSend_Unchecked(st, c, payload) ==
  IF st.ws[c] = "OPEN" /\ c \in st.bad
    THEN [st EXCEPT !.ws = terminate(@, c)]
    ELSE [st EXCEPT !.sent = Append(@, [to |-> c, frame |-> payload])]

safeSend(st, c, payload) ==
  IF st.ws[c] = "OPEN"
    THEN IF c \in st.bad
           THEN [st EXCEPT !.ws = terminate(@, c)]
           ELSE [st EXCEPT !.sent = Append(@, [to |-> c, frame |-> payload])]
    ELSE st

\* mutant: the length of the name is not bounded
isValidRoomName_NoLength(name) ==
  /\ name.isStr
  /\ Len(name.chars) >= 1
  /\ \A i \in 1..Len(name.chars) : name.chars[i] \in NameChars

isValidRoomName(name) ==
  /\ name.isStr
  /\ Len(name.chars) >= 1
  /\ Len(name.chars) <= MaxRoomNameLen
  /\ \A i \in 1..Len(name.chars) : name.chars[i] \in NameChars

RECURSIVE broadcastLoop(_, _, _, _, _)
broadcastLoop(st, room, i, payload, exceptId) ==
  IF i > Len(room) THEN st
  ELSE LET clientId == room[i]
           next == IF clientId = exceptId THEN st
                   ELSE IF clientId \in DOMAIN st.clients
                           /\ st.ws[clientId] = "OPEN"
                          THEN safeSend(st, clientId, payload)
                          ELSE st
       IN broadcastLoop(next, room, i + 1, payload, exceptId)

\* mutant: the loop does not skip exceptId
broadcastToRoom_NoExcept(st, message, roomName, exceptId) ==
  IF roomName \notin DOMAIN st.rooms THEN st
  ELSE broadcastLoop(st, st.rooms[roomName], 1, message, UNKNOWN)

\* mutant: the first write that fails ends the loop
broadcastToRoom_Aborts(st, message, roomName, exceptId) ==
  IF roomName \notin DOMAIN st.rooms THEN st
  ELSE LET room == st.rooms[roomName]
           fails == { i \in 1..Len(room) : /\ room[i] \in st.bad
                                           /\ room[i] # exceptId
                                           /\ room[i] \in DOMAIN st.clients
                                           /\ st.ws[room[i]] = "OPEN" }
           last == IF fails = {} THEN Len(room)
                   ELSE CHOOSE i \in fails : \A j \in fails : i <= j
       IN broadcastLoop(st, SubSeq(room, 1, last), 1, message, exceptId)

broadcastToRoom(st, message, roomName, exceptId) ==
  IF roomName \notin DOMAIN st.rooms THEN st
  ELSE broadcastLoop(st, st.rooms[roomName], 1, message, exceptId)

\* mutant: the empty room is not removed from the index
handleLeaveRoom_KeepsEmpty(st, clientId) ==
  IF clientId \notin DOMAIN st.clients THEN st
  ELSE IF st.clients[clientId].room = NULL THEN st
  ELSE
    LET roomName == st.clients[clientId].room
        s1 == IF roomName \in DOMAIN st.rooms
                THEN broadcastToRoom([st EXCEPT !.rooms[roomName] = SetDelete(@, clientId)],
                                     [type |-> "peer-left", peerId |-> clientId],
                                     roomName, clientId)
                ELSE st
        s2 == [s1 EXCEPT !.clients[clientId].room = NULL]
    IN IF s2.ws[clientId] = "OPEN"
         THEN safeSend(s2, clientId, [type |-> "room-left", room |-> roomName])
         ELSE s2

\* mutant: the leaver is answered before the remaining members are told
handleLeaveRoom_ConfirmFirst(st, clientId) ==
  IF clientId \notin DOMAIN st.clients THEN st
  ELSE IF st.clients[clientId].room = NULL THEN st
  ELSE
    LET roomName == st.clients[clientId].room
        s0 == IF st.ws[clientId] = "OPEN"
                THEN safeSend(st, clientId, [type |-> "room-left", room |-> roomName])
                ELSE st
        s1 == IF roomName \in DOMAIN s0.rooms
                THEN LET a == [s0 EXCEPT !.rooms[roomName] = SetDelete(@, clientId)]
                         b == broadcastToRoom(a, [type |-> "peer-left", peerId |-> clientId],
                                              roomName, clientId)
                     IN IF Len(b.rooms[roomName]) = 0
                          THEN [b EXCEPT !.rooms = MapDelete(@, roomName)]
                          ELSE b
                ELSE s0
    IN [s1 EXCEPT !.clients[clientId].room = NULL]

\* mutant: the leaver's room field is not cleared
handleLeaveRoom_KeepsRoomField(st, clientId) ==
  IF clientId \notin DOMAIN st.clients THEN st
  ELSE IF st.clients[clientId].room = NULL THEN st
  ELSE
    LET roomName == st.clients[clientId].room
        s1 == IF roomName \in DOMAIN st.rooms
                THEN LET a == [st EXCEPT !.rooms[roomName] = SetDelete(@, clientId)]
                         b == broadcastToRoom(a, [type |-> "peer-left", peerId |-> clientId],
                                              roomName, clientId)
                     IN IF Len(b.rooms[roomName]) = 0
                          THEN [b EXCEPT !.rooms = MapDelete(@, roomName)]
                          ELSE b
                ELSE st
    IN IF s1.ws[clientId] = "OPEN"
         THEN safeSend(s1, clientId, [type |-> "room-left", room |-> roomName])
         ELSE s1

\* function handleLeaveRoom(clientId)
\* mutant: the room is deleted when a member leaves, empty or not
handleLeaveRoom_DropsRoom(st, clientId) ==
  IF clientId \notin DOMAIN st.clients THEN st
  ELSE IF st.clients[clientId].room = NULL THEN st
  ELSE
    LET roomName == st.clients[clientId].room
        s1 == IF roomName \in DOMAIN st.rooms
                THEN LET a == [st EXCEPT !.rooms[roomName] = SetDelete(@, clientId)]
                         b == broadcastToRoom(a, [type |-> "peer-left", peerId |-> clientId],
                                              roomName, clientId)
                     IN [b EXCEPT !.rooms = MapDelete(@, roomName)]
                ELSE st
        s2 == [s1 EXCEPT !.clients[clientId].room = NULL]
    IN IF s2.ws[clientId] = "OPEN"
         THEN safeSend(s2, clientId, [type |-> "room-left", room |-> roomName])
         ELSE s2

\* mutant: a leave is confirmed also when the client is in no room
handleLeaveRoom_AlwaysConfirms(st, clientId) ==
  IF clientId \notin DOMAIN st.clients THEN st
  ELSE IF st.clients[clientId].room = NULL
    THEN safeSend(st, clientId, [type |-> "room-left", room |-> NULL])
  ELSE
    LET roomName == st.clients[clientId].room
        s1 == IF roomName \in DOMAIN st.rooms
                THEN LET a == [st EXCEPT !.rooms[roomName] = SetDelete(@, clientId)]
                         b == broadcastToRoom(a, [type |-> "peer-left", peerId |-> clientId],
                                              roomName, clientId)
                     IN IF Len(b.rooms[roomName]) = 0
                          THEN [b EXCEPT !.rooms = MapDelete(@, roomName)]
                          ELSE b
                ELSE st
        s2 == [s1 EXCEPT !.clients[clientId].room = NULL]
    IN IF s2.ws[clientId] = "OPEN"
         THEN safeSend(s2, clientId, [type |-> "room-left", room |-> roomName])
         ELSE s2

handleLeaveRoom(st, clientId) ==
  IF clientId \notin DOMAIN st.clients THEN st
  ELSE IF st.clients[clientId].room = NULL THEN st
  ELSE
    LET roomName == st.clients[clientId].room
        s1 == IF roomName \in DOMAIN st.rooms
                THEN LET a == [st EXCEPT !.rooms[roomName] = SetDelete(@, clientId)]
                         b == broadcastToRoom(a, [type |-> "peer-left", peerId |-> clientId],
                                              roomName, clientId)
                     IN IF Len(b.rooms[roomName]) = 0
                          THEN [b EXCEPT !.rooms = MapDelete(@, roomName)]
                          ELSE b
                ELSE st
        s2 == [s1 EXCEPT !.clients[clientId].room = NULL]
    IN IF s2.ws[clientId] = "OPEN"
         THEN safeSend(s2, clientId, [type |-> "room-left", room |-> roomName])
         ELSE s2

\* mutant: the peer list is sent before the members are notified
handleJoinRoom_PeersFirst(st, clientId, roomName) ==
  IF clientId \notin DOMAIN st.clients THEN st
  ELSE
    LET s1 == IF st.clients[clientId].room # NULL
                THEN handleLeaveRoom(st, clientId) ELSE st
        s2 == [s1 EXCEPT !.clients[clientId].room = roomName]
        s3 == IF roomName \notin DOMAIN s2.rooms
                THEN [s2 EXCEPT !.rooms = @ @@ (roomName :> <<>>)]
                ELSE s2
        s4 == [s3 EXCEPT !.rooms[roomName] = SetAdd(@, clientId)]
        s5 == safeSend(s4, clientId, [type |-> "room-joined", room |-> roomName])
        roomClients == SelectSeq(s5.rooms[roomName], LAMBDA id : id # clientId)
        s6 == safeSend(s5, clientId, [type |-> "room-peers", peers |-> roomClients])
    IN broadcastToRoom(s6, [type |-> "peer-joined", peerId |-> clientId],
                       roomName, clientId)

\* mutant: the peer list is not filtered, so it names the joiner too
handleJoinRoom_ListsSelf(st, clientId, roomName) ==
  IF clientId \notin DOMAIN st.clients THEN st
  ELSE
    LET s1 == IF st.clients[clientId].room # NULL
                THEN handleLeaveRoom(st, clientId) ELSE st
        s2 == [s1 EXCEPT !.clients[clientId].room = roomName]
        s3 == IF roomName \notin DOMAIN s2.rooms
                THEN [s2 EXCEPT !.rooms = @ @@ (roomName :> <<>>)]
                ELSE s2
        s4 == [s3 EXCEPT !.rooms[roomName] = SetAdd(@, clientId)]
        s5 == safeSend(s4, clientId, [type |-> "room-joined", room |-> roomName])
        s6 == broadcastToRoom(s5, [type |-> "peer-joined", peerId |-> clientId],
                              roomName, clientId)
    IN safeSend(s6, clientId, [type |-> "room-peers", peers |-> s6.rooms[roomName]])

\* mutant: the room the client is in is not left
handleJoinRoom_NoLeave(st, clientId, roomName) ==
  IF clientId \notin DOMAIN st.clients THEN st
  ELSE
    LET s2 == [st EXCEPT !.clients[clientId].room = roomName]
        s3 == IF roomName \notin DOMAIN s2.rooms
                THEN [s2 EXCEPT !.rooms = @ @@ (roomName :> <<>>)]
                ELSE s2
        s4 == [s3 EXCEPT !.rooms[roomName] = SetAdd(@, clientId)]
        s5 == safeSend(s4, clientId, [type |-> "room-joined", room |-> roomName])
        s6 == broadcastToRoom(s5, [type |-> "peer-joined", peerId |-> clientId],
                              roomName, clientId)
        roomClients == SelectSeq(s6.rooms[roomName], LAMBDA id : id # clientId)
    IN safeSend(s6, clientId, [type |-> "room-peers", peers |-> roomClients])

handleJoinRoom(st, clientId, roomName) ==
  IF clientId \notin DOMAIN st.clients THEN st
  ELSE
    LET s1 == IF st.clients[clientId].room # NULL
                THEN handleLeaveRoom(st, clientId) ELSE st
        s2 == [s1 EXCEPT !.clients[clientId].room = roomName]
        s3 == IF roomName \notin DOMAIN s2.rooms
                THEN [s2 EXCEPT !.rooms = @ @@ (roomName :> <<>>)]
                ELSE s2
        s4 == [s3 EXCEPT !.rooms[roomName] = SetAdd(@, clientId)]
        s5 == safeSend(s4, clientId, [type |-> "room-joined", room |-> roomName])
        s6 == broadcastToRoom(s5, [type |-> "peer-joined", peerId |-> clientId],
                              roomName, clientId)
        roomClients == SelectSeq(s6.rooms[roomName], LAMBDA id : id # clientId)
    IN safeSend(s6, clientId, [type |-> "room-peers", peers |-> roomClients])

\* -------------------------------------------------------- rate limiter
\* Time is counted in quanta of 1/QuantaPerSec second, tokens in units of
\* 1/QuantaPerSec token: a second of elapsed time credits
\* MESSAGE_RATE_PER_SEC tokens, a quantum credits MESSAGE_RATE_PER_SEC units,
\* and every quantity of rateAllow is an integer.
QuantaPerSec == 2
MaxClock == 4
MESSAGE_RATE_PER_SEC == 3
MESSAGE_BURST == 2

\* one token, and the capacity of the bucket, in units
OneToken == QuantaPerSec
Capacity == MESSAGE_BURST * QuantaPerSec

Max(a, b) == IF a >= b THEN a ELSE b
Min(a, b) == IF a <= b THEN a ELSE b

\* Math.max(0, (now - rate.last) / 1000), in quanta
Elapsed(r, t) == Max(0, t - r.last)

\* Math.min(MESSAGE_BURST, rate.tokens + elapsed * MESSAGE_RATE_PER_SEC)
Refilled(r, t) == Min(Capacity, r.tokens + Elapsed(r, t) * MESSAGE_RATE_PER_SEC)

\* mutant: the refill is not capped at the burst
rateAllow_NoCap(r, t) ==
  LET tokens == r.tokens + Elapsed(r, t) * MESSAGE_RATE_PER_SEC
  IN IF tokens >= OneToken
       THEN [rate |-> [tokens |-> tokens - OneToken, last |-> t], ok |-> TRUE]
       ELSE [rate |-> [tokens |-> tokens, last |-> t], ok |-> FALSE]

\* function rateAllow(rate), called when Date.now() is t: the bucket it
\* leaves and what it returns
rateAllow(r, t) ==
  LET tokens == Refilled(r, t)
  IN IF tokens >= OneToken
       THEN [rate |-> [tokens |-> tokens - OneToken, last |-> t], ok |-> TRUE]
       ELSE [rate |-> [tokens |-> tokens, last |-> t], ok |-> FALSE]

\* the bucket of a client that has just connected
RateInit ==
  /\ now = 0
  /\ rate = [tokens |-> Capacity, last |-> 0]
  /\ ltime = 0
  /\ passed = [t \in 0..MaxClock |-> 0]
  /\ sinceLast = 0
  /\ refill = [credit |-> 0, real |-> 0]

\* a frame of the client arrives: the message handler calls rateAllow
RateFrame ==
  /\ ltime + Elapsed(rate, now) <= MaxClock
  /\ LET r == rateAllow(rate, now)
         lt == ltime + Elapsed(rate, now)
     IN /\ rate' = r.rate
        /\ ltime' = lt
        /\ passed' = IF r.ok THEN [passed EXCEPT ![lt] = @ + 1] ELSE passed
        /\ refill' = [credit |-> (r.rate.tokens + (IF r.ok THEN OneToken ELSE 0))
                                   - rate.tokens,
                      real |-> sinceLast]
  /\ sinceLast' = 0
  /\ now' = now
  /\ UNCHANGED <<env, conns, ws, hnd, closeCode, clients, rooms, sent, op, wire>>
  /\ UNCHANGED fvars
  /\ UNCHANGED libvars

\* d quanta of time pass, and Date.now() follows
Tick(d) ==
  /\ now + d <= MaxClock
  /\ sinceLast + d <= MaxClock
  /\ now' = now + d
  /\ sinceLast' = sinceLast + d
  /\ UNCHANGED <<rate, ltime, passed, refill>>
  /\ UNCHANGED <<env, conns, ws, hnd, closeCode, clients, rooms, sent, op, wire>>
  /\ UNCHANGED fvars
  /\ UNCHANGED libvars

\* the system clock is set: Date.now() is wall-clock time and steps forward
\* or backward to t although no time has passed
ClockSet(t) ==
  /\ t # now
  /\ now' = t
  /\ UNCHANGED <<rate, ltime, passed, sinceLast, refill>>
  /\ UNCHANGED <<env, conns, ws, hnd, closeCode, clients, rooms, sent, op, wire>>
  /\ UNCHANGED fvars
  /\ UNCHANGED libvars

NextRate ==
  \/ RateFrame
  \/ \E d \in 1..MaxClock : Tick(d)
  \/ \E t \in 0..MaxClock : ClockSet(t)

\* ------------------------------------------------------------- actions
\* ------------------------------------------- the client library, at start
\* how many sockets the connector creates during a run, and how many
\* whenReady() calls the application makes
MaxSockets == 3
MaxCallbacks == 1

\* the callback P2PSignalingClient registers through whenConnected(): it
\* joins currentRoom, and whenConnected() catches what it throws
JoinCallback == [n |-> 0, kind |-> "join", throws |-> FALSE]

\* no signaling client has been constructed
ConnInit ==
  /\ closeEvent = "none"
  /\ socks = <<>>
  /\ socket = 0
  /\ shouldReconnect = TRUE
  /\ timers = {}
  /\ currentRoom = NULL
  /\ oneTimeOpenHandlers = <<>>
  /\ runs = [n \in 1..MaxCallbacks |-> 0]
  /\ nreg = 0
  /\ prevented = FALSE

\* ConsoleInterceptor instances of the run
NumInterceptors == 3
Interceptors == 1..NumInterceptors

\* no console.log() call to speak of
NoCall == [made |-> FALSE, who |-> {}, overflow |-> FALSE]

\* the console as the platform provides it; ConsoleInterceptor constructor
ConsoleInit ==
  /\ console = 0
  /\ originalMethods = [i \in Interceptors |-> 0]
  /\ isPatched = [i \in Interceptors |-> FALSE]
  /\ called = NoCall

\* P2PSignalingClient constructor, with no room option: no room, no peers,
\* and nothing received
ViewInit ==
  /\ outbox = [c \in Conn |-> <<>>]
  /\ view = [c \in Conn |-> [currentRoom |-> NULL, roomPeers |-> <<>>]]

FifoInit ==
  /\ inbox = [c \in Conn |-> <<>>]
  /\ sentNo = [c \in Conn |-> 0]
  /\ delivered = [t \in Conn |-> [s \in Conn |-> <<>>]]

Init ==
  /\ RateInit
  /\ FifoInit
  /\ ConnInit
  /\ ConsoleInit
  /\ ViewInit
  /\ env \in Configs
  /\ conns = 0
  /\ ws = [c \in Conn |-> "NONE"]
  /\ hnd = [c \in Conn |-> FALSE]
  /\ closeCode = [c \in Conn |-> 0]
  /\ clients = <<>>
  /\ rooms = <<>>
  /\ sent = <<>>
  /\ op = IDLE
  /\ wire = [c \in Conn |-> [first |-> NoFrame, ids |-> 0, ping |-> FALSE]]

Includes(list, x) == \E i \in 1..Len(list) : list[i] = x

\* mutant: the token is not checked
Admission_NoTokenCheck(origin, token) ==
  IF Cardinality(DOMAIN clients) >= MAX_CLIENTS THEN 1013
  ELSE IF Len(ALLOWED_ORIGINS) > 0 /\ ~Includes(ALLOWED_ORIGINS, origin) THEN 1008
  ELSE 0

\* what wss.on("connection") decides for a request
Admission(origin, token) ==
  IF Cardinality(DOMAIN clients) >= MAX_CLIENTS THEN 1013
  ELSE IF Len(ALLOWED_ORIGINS) > 0 /\ ~Includes(ALLOWED_ORIGINS, origin) THEN 1008
  ELSE IF WS_SECRET # "" /\ token # WS_SECRET THEN 4003
  ELSE 0

\* mutant: the assigned id is never sent
AdmitClient_NoId(st, id) ==
  [st EXCEPT !.clients = @ @@ (id :> [room |-> NULL, isAlive |-> TRUE])]

\* clients.set(id, {...}) and the `id` frame that follows it
AdmitClient(st, id) ==
  safeSend([st EXCEPT !.clients = @ @@ (id :> [room |-> NULL, isAlive |-> TRUE])],
           id, IdFrame(id))

\* wss.on("connection")
Connection(origin, token) ==
  /\ op = IDLE
  /\ conns < NumConns
  /\ LET id == conns + 1
         code == Admission(origin, token)
     IN /\ conns' = id
        /\ op' = [kind |-> "connection", c |-> id, origin |-> origin, token |-> token]
        /\ IF code # 0
             THEN /\ ws' = [ws EXCEPT ![id] = "CLOSING"]
                  /\ closeCode' = [closeCode EXCEPT ![id] = code]
                  /\ sent' = <<>>
                  /\ UNCHANGED <<hnd, clients, rooms, wire>>
             ELSE LET st == AdmitClient([State EXCEPT !.ws[id] = "OPEN"], id)
                  IN /\ ws' = st.ws
                     /\ clients' = st.clients
                     /\ sent' = st.sent
                     /\ wire' = Written(wire, st.sent)
                     /\ hnd' = [hnd EXCEPT ![id] = TRUE]
                     /\ UNCHANGED <<closeCode, rooms>>
  /\ UNCHANGED env
  /\ UNCHANGED rvars
  /\ UNCHANGED libvars
  /\ UNCHANGED fvars

\* ------------------------------------------------------ inbound frames
\* a payload field the frame does not carry
NoData == "<absent>"

\* texts of payload values: a string, a small integer, an integer that no
\* double represents (2^53 + 1), a number beyond the range of doubles
DataTokens == {"\"sdp\"", "7", "9007199254740993", "1e999"}

\* JSON.parse on the text of a value: numbers become doubles
JSONparseValue(tok) ==
  CASE tok = NoData -> [t |-> "undefined", v |-> ""]
    [] tok = "\"sdp\"" -> [t |-> "string", v |-> "sdp"]
    [] tok = "7" -> [t |-> "number", v |-> "7"]
    [] tok = "9007199254740993" -> [t |-> "number", v |-> "9007199254740992"]
    [] tok = "1e999" -> [t |-> "number", v |-> "Infinity"]
    [] tok = "null" -> [t |-> "null", v |-> ""]

\* JSON.stringify on a value: an undefined field is left out, a number that
\* is not finite is written as null
JSONstringifyValue(val) ==
  CASE val.t = "undefined" -> NoData
    [] val.t = "string" -> "\"" \o val.v \o "\""
    [] val.t = "number" -> IF val.v \in {"Infinity", "-Infinity", "NaN"}
                             THEN "null" ELSE val.v
    [] val.t = "null" -> "null"

\* JSON.parse / JSON.stringify on a frame: identifiers, types and room names
\* are strings, which both conversions keep as they are
JSONparse(obj) == [obj EXCEPT !.data = JSONparseValue(@)]
JSONstringify(obj) == [obj EXCEPT !.data = JSONstringifyValue(@)]

\* the object JSON.parse returns for a frame
Obj(type, to, from, room) ==
  [type |-> type, to |-> to, from |-> from, room |-> room, data |-> NoData]

\* ... and one that carries a payload field; `data` is the text of the
\* field's value in the frame
ObjData(type, to, from, data) ==
  [type |-> type, to |-> to, from |-> from, room |-> NoRoomField, data |-> data]

\* a frame that parses to an object
\* payloads that are not JSON, as byte sequences: a text, and bytes that
\* are not UTF-8, which only a binary frame can carry
IllFormed == "<ff fe>"
RawPayloads == {"hello", IllFormed}

\* String(raw): the payload decoded as UTF-8, each ill-formed byte replaced
\* by U+FFFD; given as the bytes of the text frame that ws.send() writes
String(raw) == IF raw = IllFormed THEN "<ef bf bd ef bf bd>" ELSE raw

JsonFrame(obj) ==
  [json |-> TRUE, root |-> "object", proto |-> FALSE, obj |-> obj, raw |-> ""]

NoObj == Obj(NOTSTRING, ABSENT, ABSENT, NoRoomField)

\* values the `to` field takes
ToVals == {ABSENT, EMPTY, UNKNOWN} \cup Conn

Frames ==
  { JsonFrame(Obj("join-room", ABSENT, ABSENT, r)) : r \in RoomInputs }
  \cup { JsonFrame(Obj("leave-room", ABSENT, ABSENT, NoRoomField)) }
  \cup { JsonFrame(Obj("offer", t, ABSENT, NoRoomField)) : t \in ToVals }
  \cup { JsonFrame(ObjData("offer", 1, UNKNOWN, d)) : d \in DataTokens }
  \cup { JsonFrame(ObjData("offer", ABSENT, UNKNOWN, d)) : d \in {"\"sdp\"", "1e999"} }
  \cup { JsonFrame(Obj("peer-left", ABSENT, UNKNOWN, NoRoomField)) }
  \cup { JsonFrame(Obj(NOTSTRING, 1, ABSENT, NoRoomField)) }
  \cup { [json |-> TRUE, root |-> "object", proto |-> TRUE,
          obj |-> Obj("offer", 1, ABSENT, NoRoomField), raw |-> ""],
         [json |-> TRUE, root |-> "object", proto |-> TRUE,
          obj |-> Obj("join-room", ABSENT, ABSENT, [isStr |-> TRUE, chars |-> R1]),
          raw |-> ""] }
  \cup { [json |-> TRUE, root |-> "other", proto |-> FALSE, obj |-> NoObj, raw |-> ""] }
  \cup { [json |-> FALSE, root |-> "other", proto |-> FALSE, obj |-> NoObj, raw |-> r] :
           r \in RawPayloads }

\* the leave-room frame
LeaveFrame == JsonFrame(Obj("leave-room", ABSENT, ABSENT, NoRoomField))

\* frames that arrive when the rate limiter refuses: the handler returns
\* before it reads them, so it is enough to take those that would change
\* the membership or reach other clients if they were read
LimitedFrames ==
  { JsonFrame(Obj("join-room", ABSENT, ABSENT, [isStr |-> TRUE, chars |-> R1])),
    LeaveFrame,
    JsonFrame(ObjData("offer", ABSENT, UNKNOWN, "\"sdp\"")) }

Error(message) == [type |-> "error", message |-> message]

\* mutant: Object.assign({from: id}, parsed), a `from` of the frame wins
Forward_KeepsFrom(parsed, id) ==
  IF parsed.from = ABSENT THEN [parsed EXCEPT !.from = id] ELSE parsed

\* mutant: the frame is forwarded as it was parsed
Forward_AsParsed(parsed, id) == parsed

\* Object.assign({}, parsed, {from: id})
Forward(parsed, id) == [parsed EXCEPT !.from = id]

\* mutant: the rooms of sender and target are not compared
CanRelay_AnyRoom(st, id, target) ==
  /\ target \in DOMAIN st.clients
  /\ st.ws[target] = "OPEN"

\* mutant: a client is no target of its own frames
CanRelay_NotSelf(st, id, target) ==
  /\ target # id
  /\ target \in DOMAIN st.clients
  /\ st.ws[target] = "OPEN"
  /\ st.clients[id].room # NULL
  /\ st.clients[target].room = st.clients[id].room

\* the targeted branch of the message handler: may the frame go to target?
CanRelay(st, id, target) ==
  /\ target \in DOMAIN st.clients
  /\ st.ws[target] = "OPEN"
  /\ st.clients[id].room # NULL
  /\ st.clients[target].room = st.clients[id].room

\* mutant: the room-full check is off by one
RoomFull_OffByOne(st, roomName) ==
  /\ roomName \in DOMAIN st.rooms
  /\ Len(st.rooms[roomName]) > MAX_ROOM_CLIENTS

\* the room-full check of the join-room branch
RoomFull(st, roomName) ==
  /\ roomName \in DOMAIN st.rooms
  /\ Len(st.rooms[roomName]) >= MAX_ROOM_CLIENTS

\* mutant: the room-full check runs after the sender left its current room
Dispatch_FullLeavesFirst(st, id, parsed) ==
  IF parsed.type = NOTSTRING
    THEN safeSend(st, id, Error("invalid-message"))
  ELSE IF parsed.type = "join-room"
    THEN IF ~isValidRoomName(parsed.room)
           THEN safeSend(st, id, Error("invalid-room-name"))
         ELSE IF RoomFull(st, parsed.room.chars)
           THEN safeSend(handleLeaveRoom(st, id), id, Error("room-full"))
         ELSE handleJoinRoom(st, id, parsed.room.chars)
  ELSE IF parsed.type = "leave-room"
    THEN handleLeaveRoom(st, id)
  ELSE IF parsed.to # ABSENT /\ parsed.to # EMPTY
    THEN IF CanRelay(st, id, parsed.to)
           THEN safeSend(st, parsed.to, JSONstringify(Forward(parsed, id)))
           ELSE safeSend(st, id, [type |-> "error",
                                  message |-> "target-unavailable-or-different-room",
                                  to |-> parsed.to])
  ELSE IF st.clients[id].room # NULL
    THEN broadcastToRoom(st, JSONstringify(Forward(parsed, id)), st.clients[id].room, id)
  ELSE st

\* the part of ws.on("message") that follows JSON.parse
Dispatch(st, id, parsed) ==
  IF parsed.type = NOTSTRING
    THEN safeSend(st, id, Error("invalid-message"))
  ELSE IF parsed.type = "join-room"
    THEN IF ~isValidRoomName(parsed.room)
           THEN safeSend(st, id, Error("invalid-room-name"))
         ELSE IF RoomFull(st, parsed.room.chars)
           THEN safeSend(st, id, Error("room-full"))
         ELSE handleJoinRoom(st, id, parsed.room.chars)
  ELSE IF parsed.type = "leave-room"
    THEN handleLeaveRoom(st, id)
  ELSE IF parsed.to # ABSENT /\ parsed.to # EMPTY
    THEN IF CanRelay(st, id, parsed.to)
           THEN safeSend(st, parsed.to, JSONstringify(Forward(parsed, id)))
           ELSE safeSend(st, id, [type |-> "error",
                                  message |-> "target-unavailable-or-different-room",
                                  to |-> parsed.to])
  ELSE IF st.clients[id].room # NULL
    THEN broadcastToRoom(st, JSONstringify(Forward(parsed, id)), st.clients[id].room, id)
  ELSE st

\* mutant: the handler goes on after it answered rate-limit
MessageHandler_NoReturn(st, id, f, allowed) ==
  IF id \notin DOMAIN st.clients THEN st
  ELSE
    LET s0 == IF ~allowed THEN safeSend(st, id, Error("rate-limit")) ELSE st
    IN IF ~f.json
         THEN IF s0.clients[id].room # NULL
                THEN broadcastToRoom(s0, [raw |-> String(f.raw)], s0.clients[id].room, id)
                ELSE s0
       ELSE IF f.root = "object" /\ f.proto
         THEN safeSend(s0, id, Error("invalid-message"))
       ELSE IF f.root # "object"
         THEN safeSend(s0, id, Error("invalid-message"))
       ELSE Dispatch(s0, id, JSONparse(f.obj))

\* ws.on("message").  `allowed` is what rateAllow(clientInfo.rate) answers:
\* in every state both answers occur, since frames that change nothing
\* drain the bucket and the passing of time refills it.
MessageHandler(st, id, f, allowed) ==
  IF id \notin DOMAIN st.clients THEN st
  ELSE IF ~allowed
    THEN safeSend(st, id, Error("rate-limit"))
  ELSE IF ~f.json
    THEN IF st.clients[id].room # NULL
           THEN broadcastToRoom(st, [raw |-> String(f.raw)], st.clients[id].room, id)
           ELSE st
  ELSE IF f.root = "object" /\ f.proto
    THEN safeSend(st, id, Error("invalid-message"))
  ELSE IF f.root # "object"
    THEN safeSend(st, id, Error("invalid-message"))
  ELSE Dispatch(st, id, JSONparse(f.obj))

\* a frame arrives on connection c and the handler serves it.  The
\* transport hands frames of an open stream to the handler; frames still
\* buffered when the broker terminated the stream (heartbeat eviction) reach
\* the handler after the record is gone; a rejected connection has no
\* handler at all.
Serve(c, f, allowed) ==
  /\ op = IDLE
  /\ c <= conns
  /\ ws[c] # "CLOSED"
  /\ ws[c] = "OPEN" \/ c \notin DOMAIN clients
  /\ LET st == IF hnd[c] THEN MessageHandler(State, c, f, allowed) ELSE State
     IN /\ clients' = st.clients
        /\ rooms' = st.rooms
        /\ ws' = st.ws
        /\ sent' = st.sent
        /\ wire' = Written(wire, st.sent)
  /\ op' = [kind |-> "message", c |-> c, f |-> f, allowed |-> allowed]
  /\ UNCHANGED <<env, conns, hnd, closeCode>>
  /\ UNCHANGED rvars
  /\ UNCHANGED libvars

\* a frame that the rate limiter lets pass (or that never reaches it)
OnMessage(c, f) == Serve(c, f, TRUE) /\ UNCHANGED fvars

\* a frame of a registered client that the rate limiter refuses
OnRateLimited(c, f) ==
  /\ c \in DOMAIN clients
  /\ Serve(c, f, FALSE)
  /\ UNCHANGED fvars

\* the peer closes its stream (or the stream breaks): readyState leaves OPEN
\* and the close event is queued
PeerClose(c) ==
  /\ op = IDLE
  /\ ws[c] = "OPEN"
  /\ ws' = [ws EXCEPT ![c] = "CLOSING"]
  /\ UNCHANGED <<env, conns, hnd, closeCode, clients, rooms, sent, op, wire>>
  /\ UNCHANGED rvars
  /\ UNCHANGED libvars
  /\ UNCHANGED fvars

\* ws.on("close")
CloseHandler(st, id) ==
  LET s1 == IF id \in DOMAIN st.clients /\ st.clients[id].room # NULL
              THEN handleLeaveRoom(st, id) ELSE st
  IN [s1 EXCEPT !.clients = MapDelete(@, id)]

\* the close event of connection c is delivered
OnClose(c) ==
  /\ op = IDLE
  /\ hnd[c]
  /\ ws[c] = "CLOSING"
  /\ LET w == [ws EXCEPT ![c] = "CLOSED"]
         st0 == [State EXCEPT !.ws = w]
         st == CloseHandler(st0, c)
     IN /\ clients' = st.clients
        /\ rooms' = st.rooms
        /\ ws' = st.ws
        /\ sent' = st.sent
        /\ wire' = Written(wire, st.sent)
  /\ op' = [kind |-> "close", c |-> c]
  /\ UNCHANGED <<env, conns, hnd, closeCode>>
  /\ UNCHANGED rvars
  /\ UNCHANGED libvars
  /\ UNCHANGED fvars

\* mutant: the pong is processed, but the alive flag is not set
OnPong_Forgets(c) ==
  /\ op = IDLE
  /\ hnd[c]
  /\ ws[c] # "CLOSED"
  /\ ws[c] = "OPEN" \/ c \notin DOMAIN clients
  /\ clients' = clients
  /\ sent' = <<>>
  /\ op' = [kind |-> "pong", c |-> c]
  /\ wire' = [wire EXCEPT ![c].ping = FALSE]
  /\ UNCHANGED <<env, conns, ws, hnd, closeCode, rooms>>
  /\ UNCHANGED rvars
  /\ UNCHANGED libvars
  /\ UNCHANGED fvars

\* ws.on("pong")
OnPong(c) ==
  /\ op = IDLE
  /\ hnd[c]
  /\ ws[c] # "CLOSED"
  /\ ws[c] = "OPEN" \/ c \notin DOMAIN clients
  /\ clients' = IF c \in DOMAIN clients
                  THEN [clients EXCEPT ![c].isAlive = TRUE] ELSE clients
  /\ sent' = <<>>
  /\ op' = [kind |-> "pong", c |-> c]
  /\ wire' = [wire EXCEPT ![c].ping = FALSE]
  /\ UNCHANGED <<env, conns, ws, hnd, closeCode, rooms>>
  /\ UNCHANGED rvars
  /\ UNCHANGED libvars
  /\ UNCHANGED fvars

\* mutant: an evicted client stays in its room set
HeartbeatOne_KeepsMember(st, id) ==
  LET info == st.clients[id]
  IN IF ~info.isAlive \/ st.ws[id] # "OPEN"
       THEN [st EXCEPT !.ws = terminate(@, id), !.clients = MapDelete(@, id)]
       ELSE [st EXCEPT !.clients[id].isAlive = FALSE, !.pinged = @ \cup {id}]

\* mutant: an evicted client stays in the registry
HeartbeatOne_KeepsClient(st, id) ==
  LET info == st.clients[id]
  IN IF ~info.isAlive \/ st.ws[id] # "OPEN"
       THEN LET s1 == [st EXCEPT !.ws = terminate(@, id)]
            IN IF info.room # NULL /\ info.room \in DOMAIN s1.rooms
                 THEN LET a == [s1 EXCEPT !.rooms[info.room] = SetDelete(@, id)]
                          b == broadcastToRoom(a, [type |-> "peer-left", peerId |-> id],
                                               info.room, id)
                      IN IF Len(b.rooms[info.room]) = 0
                           THEN [b EXCEPT !.rooms = MapDelete(@, info.room)]
                           ELSE b
                 ELSE s1
       ELSE [st EXCEPT !.clients[id].isAlive = FALSE, !.pinged = @ \cup {id}]

\* mutant: only the alive flag is looked at, not the state of the stream
HeartbeatOne_OnlyFlag(st, id) ==
  LET info == st.clients[id]
  IN IF ~info.isAlive
       THEN LET s1 == [st EXCEPT !.ws = terminate(@, id),
                                 !.clients = MapDelete(@, id)]
            IN IF info.room # NULL /\ info.room \in DOMAIN s1.rooms
                 THEN LET a == [s1 EXCEPT !.rooms[info.room] = SetDelete(@, id)]
                          b == broadcastToRoom(a, [type |-> "peer-left", peerId |-> id],
                                               info.room, id)
                      IN IF Len(b.rooms[info.room]) = 0
                           THEN [b EXCEPT !.rooms = MapDelete(@, info.room)]
                           ELSE b
                 ELSE s1
       ELSE [st EXCEPT !.clients[id].isAlive = FALSE, !.pinged = @ \cup {id}]

\* mutant: a client that did not answer is pinged again while its stream
\* is open
HeartbeatOne_Forgiving(st, id) ==
  LET info == st.clients[id]
  IN IF st.ws[id] # "OPEN"
       THEN LET s1 == [st EXCEPT !.ws = terminate(@, id),
                                 !.clients = MapDelete(@, id)]
            IN IF info.room # NULL /\ info.room \in DOMAIN s1.rooms
                 THEN LET a == [s1 EXCEPT !.rooms[info.room] = SetDelete(@, id)]
                          b == broadcastToRoom(a, [type |-> "peer-left", peerId |-> id],
                                               info.room, id)
                      IN IF Len(b.rooms[info.room]) = 0
                           THEN [b EXCEPT !.rooms = MapDelete(@, info.room)]
                           ELSE b
                 ELSE s1
       ELSE [st EXCEPT !.clients[id].isAlive = FALSE, !.pinged = @ \cup {id}]

\* the body of the heartbeat loop for one entry of the clients Map
HeartbeatOne(st, id) ==
  LET info == st.clients[id]
  IN IF ~info.isAlive \/ st.ws[id] # "OPEN"
       THEN LET s1 == [st EXCEPT !.ws = terminate(@, id),
                                 !.clients = MapDelete(@, id)]
            IN IF info.room # NULL /\ info.room \in DOMAIN s1.rooms
                 THEN LET a == [s1 EXCEPT !.rooms[info.room] = SetDelete(@, id)]
                          b == broadcastToRoom(a, [type |-> "peer-left", peerId |-> id],
                                               info.room, id)
                      IN IF Len(b.rooms[info.room]) = 0
                           THEN [b EXCEPT !.rooms = MapDelete(@, info.room)]
                           ELSE b
                 ELSE s1
       ELSE [st EXCEPT !.clients[id].isAlive = FALSE, !.pinged = @ \cup {id}]

\* for (const [id, info] of clients.entries()): insertion order is id order
RECURSIVE HeartbeatLoop(_, _)
HeartbeatLoop(st, id) ==
  IF id > NumConns THEN st
  ELSE HeartbeatLoop(IF id \in DOMAIN st.clients THEN HeartbeatOne(st, id) ELSE st,
                     id + 1)

\* the setInterval callback
Heartbeat ==
  /\ op = IDLE
  /\ LET st == HeartbeatLoop(State, 1)
     IN /\ clients' = st.clients
        /\ rooms' = st.rooms
        /\ ws' = st.ws
        /\ sent' = st.sent
        /\ wire' = Pinged(Written(wire, st.sent), st.pinged)
  /\ op' = [kind |-> "heartbeat"]
  /\ UNCHANGED <<env, conns, hnd, closeCode>>
  /\ UNCHANGED rvars
  /\ UNCHANGED libvars
  /\ UNCHANGED fvars

\* a frame of client c is served and ws.send() throws on the stream of b,
\* to which the handler writes
OnMessageWriteFails(c, f, b) ==
  /\ op = IDLE
  /\ c \in DOMAIN clients
  /\ ws[c] = "OPEN"
  /\ hnd[c]
  /\ LET st == MessageHandler(StateBad({b}), c, f, TRUE)
     IN /\ st.ws # ws
        /\ clients' = st.clients
        /\ rooms' = st.rooms
        /\ ws' = st.ws
        /\ sent' = st.sent
        /\ wire' = Written(wire, st.sent)
  /\ op' = [kind |-> "message/write-error", c |-> c, f |-> f, allowed |-> TRUE,
            bad |-> b]
  /\ UNCHANGED <<env, conns, hnd, closeCode>>
  /\ UNCHANGED rvars
  /\ UNCHANGED libvars
  /\ UNCHANGED fvars

\* the close event of connection c is delivered and ws.send() throws on the
\* stream of b, to which the handler writes
OnCloseWriteFails(c, b) ==
  /\ op = IDLE
  /\ hnd[c]
  /\ ws[c] = "CLOSING"
  /\ LET w == [ws EXCEPT ![c] = "CLOSED"]
         st0 == [StateBad({b}) EXCEPT !.ws = w]
         st == CloseHandler(st0, c)
     IN /\ st.ws # w
        /\ clients' = st.clients
        /\ rooms' = st.rooms
        /\ ws' = st.ws
        /\ sent' = st.sent
        /\ wire' = Written(wire, st.sent)
  /\ op' = [kind |-> "close/write-error", c |-> c, bad |-> b]
  /\ UNCHANGED <<env, conns, hnd, closeCode>>
  /\ UNCHANGED rvars
  /\ UNCHANGED libvars
  /\ UNCHANGED fvars

\* the setInterval callback runs and ws.send() throws on the stream of b, to
\* which it writes
HeartbeatWriteFails(b) ==
  /\ op = IDLE
  /\ ws[b] = "OPEN"
  /\ LET st == HeartbeatLoop(StateBad({b}), 1)
     IN /\ st.sent # HeartbeatLoop(State, 1).sent
        /\ clients' = st.clients
        /\ rooms' = st.rooms
        /\ ws' = st.ws
        /\ sent' = st.sent
        /\ wire' = Pinged(Written(wire, st.sent), st.pinged)
  /\ op' = [kind |-> "heartbeat/write-error", bad |-> b]
  /\ UNCHANGED <<env, conns, hnd, closeCode>>
  /\ UNCHANGED rvars
  /\ UNCHANGED libvars
  /\ UNCHANGED fvars

\* roomsInfo[roomName] = value on the plain object roomsInfo: the key
\* __proto__ is the accessor inherited from Object.prototype, and assigning
\* to it sets the prototype of the object and creates no property
ObjectAssign(o, key, value) ==
  IF key = <<"_", "_", "p", "r", "o", "t", "o", "_", "_">> THEN o
  ELSE (key :> value) @@ o

\* for (const [roomName, clientIds] of rooms.entries())
\*   roomsInfo[roomName] = Array.from(clientIds);
RECURSIVE roomsInfoLoop(_, _)
roomsInfoLoop(o, names) ==
  IF names = {} THEN o
  ELSE LET roomName == CHOOSE n \in names : TRUE
       IN roomsInfoLoop(ObjectAssign(o, roomName, rooms[roomName]), names \ {roomName})

\* the body of the response of GET /status
StatusBody ==
  [totalClients |-> Cardinality(DOMAIN clients),
   clients |-> SelectSeq([i \in 1..NumConns |-> i], LAMBDA i : i \in DOMAIN clients),
   rooms |-> roomsInfoLoop(<<>>, DOMAIN rooms)]

\* app.get("/status")
Status ==
  /\ op = IDLE
  /\ op' = [kind |-> "status", res |-> StatusBody]
  /\ sent' = <<>>
  /\ UNCHANGED <<env, conns, ws, hnd, closeCode, clients, rooms, wire>>
  /\ UNCHANGED rvars
  /\ UNCHANGED libvars
  /\ UNCHANGED fvars

\* the handler returns to the event loop; the frames it wrote are on the wire
Return ==
  /\ op # IDLE
  /\ op' = IDLE
  /\ sent' = <<>>
  /\ UNCHANGED <<env, conns, ws, hnd, closeCode, clients, rooms, wire>>
  /\ UNCHANGED rvars
  /\ UNCHANGED libvars
  /\ UNCHANGED fvars

Next ==
  \/ \E o \in Origins, t \in Tokens : Connection(o, t)
  \/ \E c \in Conn, f \in Frames : OnMessage(c, f)
  \/ \E c \in Conn, f \in LimitedFrames : OnRateLimited(c, f)
  \/ \E c \in Conn : PeerClose(c)
  \/ \E c \in Conn : OnClose(c)
  \/ \E c \in Conn : OnPong(c)
  \/ Heartbeat
  \/ Status
  \/ Return

\* the broker when writes can fail: ws.send() on an open stream does not
\* throw in the normal course of things, and safeSend guards against the
\* case that it does
NextFault ==
  \/ Next
  \/ \E c, b \in Conn, f \in Frames : OnMessageWriteFails(c, f, b)
  \/ \E c, b \in Conn : OnCloseWriteFails(c, b)
  \/ \E b \in Conn : HeartbeatWriteFails(b)

\* ------------------------------------------------ frames in flight
\* how many numbered frames the clients send, and how many are in flight
MaxSent == 2
MaxInFlight == 2

\* the frames that are numbered: signaling frames and a frame that is not
\* JSON
FifoFrames ==
  { JsonFrame(Obj("offer", t, ABSENT, NoRoomField)) : t \in {ABSENT, 2} }
  \cup { [json |-> FALSE, root |-> "other", proto |-> FALSE, obj |-> NoObj, raw |-> "hello"] }

\* frames that change the membership
MembershipFrames ==
  { JsonFrame(Obj("join-room", ABSENT, ABSENT, [isStr |-> TRUE, chars |-> R1])),
    LeaveFrame }

\* a frame the broker wrote for a sender: a forwarded object or raw bytes
OfSender(fr) == "from" \in DOMAIN fr \/ "raw" \in DOMAIN fr

RemoveAt(q, i) == SubSeq(q, 1, i - 1) \o SubSeq(q, i + 1, Len(q))

InFlight == Cardinality({ <<c, i>> \in Conn \X (1..MaxInFlight) : i <= Len(inbox[c]) })

Sent == Cardinality({ <<c, i>> \in Conn \X (1..MaxSent) : i <= sentNo[c] })

\* client c sends its next numbered frame
ClientSend(c, f) ==
  /\ hnd[c]
  /\ ws[c] = "OPEN"
  /\ Sent < MaxSent
  /\ InFlight < MaxInFlight
  /\ sentNo' = [sentNo EXCEPT ![c] = @ + 1]
  /\ inbox' = [inbox EXCEPT ![c] = Append(@, [f |-> f, n |-> sentNo[c] + 1])]
  /\ UNCHANGED delivered
  /\ UNCHANGED <<env, conns, ws, hnd, closeCode, clients, rooms, sent, op, wire>>
  /\ UNCHANGED rvars
  /\ UNCHANGED libvars

\* mutant: the frame that arrived last is read first
NextInbound_Last(q) == Len(q)

\* which of the frames in flight on a connection the next "message" event
\* hands to the handler: the stream keeps the order in which they were sent
NextInbound(q) == 1

\* the next frame in flight on connection c arrives: the handler serves it,
\* and what it writes for c is on the receivers' streams
OnMessageInFlight(c, allowed) ==
  /\ inbox[c] # <<>>
  /\ LET i == NextInbound(inbox[c])
         m == inbox[c][i]
     IN /\ Serve(c, m.f, allowed)
        /\ inbox' = [inbox EXCEPT ![c] = RemoveAt(@, i)]
        /\ delivered' =
             [t \in Conn |->
                IF t # c /\ \E k \in 1..Len(sent') :
                              sent'[k].to = t /\ OfSender(sent'[k].frame)
                  THEN [delivered[t] EXCEPT ![c] = Append(@, m.n)]
                  ELSE delivered[t]]
  /\ UNCHANGED sentNo

\* the broker and the frames in flight to it
NextFifo ==
  \/ \E o \in Origins, t \in Tokens : Connection(o, t)
  \/ \E c \in Conn, f \in MembershipFrames : OnMessage(c, f)
  \/ \E c \in Conn, f \in FifoFrames : ClientSend(c, f)
  \/ \E c \in Conn, allowed \in BOOLEAN : OnMessageInFlight(c, allowed)
  \/ \E c \in Conn : PeerClose(c)
  \/ \E c \in Conn : OnClose(c)
  \/ Return

\* ------------------------------------------------ WebSocketConnector
\* new WebSocket(this.url) with the four handlers of connect() attached,
\* which are never detached.  Remembered with the socket: the socket whose
\* reconnect timer created it (0: a call of the application did), whether
\* it was forceReconnect() that closed it, the room the client's
\* forceReconnect() has to rejoin on it, and the rooms of the join-room
\* frames sent on it.
NewSocket(origin, forRoom) ==
  [readyState |-> "CONNECTING", origin |-> origin, forced |-> FALSE,
   forRoom |-> forRoom, joins |-> {}]

\* the connector object
Connector ==
  [socks |-> socks, socket |-> socket, shouldReconnect |-> shouldReconnect,
   timers |-> timers, oneTimeOpenHandlers |-> oneTimeOpenHandlers, runs |-> runs]

\* a callback of the application, the n-th it registers; it returns or throws
UserCallback(n, throws) == [n |-> n, kind |-> "user", throws |-> throws]

\* WebSocketConnector.connect()
connect(k, origin, forRoom) ==
  [k EXCEPT !.socks = Append(@, NewSocket(origin, forRoom)),
            !.socket = Len(k.socks) + 1]

\* WebSocketConnector.isConnected()
isConnected(k) == k.socket # 0 /\ k.socks[k.socket].readyState = "OPEN"

\* WebSocketConnector.send() of a join-room frame
send(k, msg) ==
  IF isConnected(k) THEN [k EXCEPT !.socks[k.socket].joins = @ \cup {msg.room}]
  ELSE k

\* P2PSignalingClient.joinRoom()
joinRoom(k, roomName) ==
  IF roomName = NULL THEN k
  ELSE send(k, [type |-> "join-room", room |-> roomName])

\* a callback is invoked
Invoke(k, cb) ==
  IF cb.kind = "join"
    THEN IF currentRoom # NULL THEN joinRoom(k, currentRoom) ELSE k
    ELSE [k EXCEPT !.runs[cb.n] = @ + 1]

\* this.oneTimeOpenHandlers.forEach(handler => handler(event)), then
\* this.oneTimeOpenHandlers = []: a handler that throws ends the loop and
\* the open handler, and the list stays as it is
RECURSIVE runOneTime(_, _)
runOneTime(k, i) ==
  IF i > Len(k.oneTimeOpenHandlers)
    THEN [k EXCEPT !.oneTimeOpenHandlers = <<>>]
    ELSE LET cb == k.oneTimeOpenHandlers[i]
         IN IF cb.throws THEN Invoke(k, cb)
            ELSE runOneTime(Invoke(k, cb), i + 1)

\* ws.onopen
onopen(k, s) == runOneTime([k EXCEPT !.socks[s].readyState = "OPEN"], 1)

\* ws.onclose
onclose(k, s) ==
  LET k1 == [k EXCEPT !.socks[s].readyState = "CLOSED"]
  IN IF k.shouldReconnect THEN [k1 EXCEPT !.timers = @ \cup {s}] ELSE k1

\* WebSocket.close() on socket s, called by forceReconnect() or not:
\* nothing on a socket that is closing or closed; otherwise the socket is
\* closing, and its close event is delivered at once or queued
close(k, s, forced) ==
  IF k.socks[s].readyState \in {"CLOSING", "CLOSED"} THEN k
  ELSE LET k1 == [k EXCEPT !.socks[s].readyState = "CLOSING",
                           !.socks[s].forced = forced]
       IN IF closeEvent = "sync" THEN onclose(k1, s) ELSE k1

\* WebSocketConnector.disconnect(preventReconnect)
disconnect(k, preventReconnect) ==
  LET k1 == IF preventReconnect THEN [k EXCEPT !.shouldReconnect = FALSE] ELSE k
  IN IF k1.socket # 0 THEN close(k1, k1.socket, FALSE) ELSE k1

\* WebSocketConnector.forceReconnect()
forceReconnect(k, forRoom) ==
  LET k1 == IF k.socket # 0
              THEN [close([k EXCEPT !.shouldReconnect = FALSE], k.socket, TRUE)
                      EXCEPT !.shouldReconnect = k.shouldReconnect]
              ELSE k
  IN connect(k1, 0, forRoom)

\* WebSocketConnector.whenReady(callback)
whenReady(k, cb) ==
  IF isConnected(k) THEN Invoke(k, cb)
  ELSE [k EXCEPT !.oneTimeOpenHandlers = Append(@, cb)]

\* P2PSignalingClient.forceReconnect()
clientForceReconnect(k) ==
  LET k1 == forceReconnect(k, currentRoom)
  IN IF currentRoom # NULL THEN whenReady(k1, JoinCallback) ELSE k1

\* the connector is left as k
Becomes(k) ==
  /\ socks' = k.socks
  /\ socket' = k.socket
  /\ shouldReconnect' = k.shouldReconnect
  /\ timers' = k.timers
  /\ oneTimeOpenHandlers' = k.oneTimeOpenHandlers
  /\ runs' = k.runs

\* what no step of the connector changes
Elsewhere ==
  /\ closeEvent # "none"
  /\ UNCHANGED bvars
  /\ UNCHANGED rvars
  /\ UNCHANGED fvars
  /\ UNCHANGED <<closeEvent, currentRoom>>
  /\ UNCHANGED ivars
  /\ UNCHANGED pvars

\* new P2PSignalingClient(url, {room}): the constructor makes the connector
\* and registers, through whenConnected(), the callback that joins
\* options.room; the platform's WebSocket delivers close events as `how`
Construct(room, how) ==
  /\ closeEvent = "none"
  /\ closeEvent' = how
  /\ currentRoom' = room
  /\ Becomes(whenReady(Connector, JoinCallback))
  /\ UNCHANGED <<nreg, prevented>>
  /\ UNCHANGED bvars
  /\ UNCHANGED rvars
  /\ UNCHANGED fvars
  /\ UNCHANGED ivars
  /\ UNCHANGED pvars

\* the application calls connect()
Connect ==
  /\ Len(socks) < MaxSockets
  /\ Becomes(connect(Connector, 0, NULL))
  /\ prevented' = FALSE
  /\ UNCHANGED nreg
  /\ Elsewhere

\* the open event of socket s
SocketOpen(s) ==
  /\ s \in 1..Len(socks)
  /\ socks[s].readyState = "CONNECTING"
  /\ Becomes(onopen(Connector, s))
  /\ UNCHANGED <<nreg, prevented>>
  /\ Elsewhere

\* the close event of socket s: the connection could not be made, the
\* server or the network closed it, or a close() call has completed
SocketClose(s) ==
  /\ s \in 1..Len(socks)
  /\ socks[s].readyState # "CLOSED"
  /\ Becomes(onclose(Connector, s))
  /\ UNCHANGED <<nreg, prevented>>
  /\ Elsewhere

\* setTimeout(() => this.connect(), this.reconnectInterval) of the close
\* handler of socket s fires
TimerFires(s) ==
  /\ s \in timers
  /\ Len(socks) < MaxSockets
  /\ Becomes(connect([Connector EXCEPT !.timers = @ \ {s}], s, NULL))
  /\ UNCHANGED <<nreg, prevented>>
  /\ Elsewhere

\* the application calls disconnect(preventReconnect)
Disconnect(preventReconnect) ==
  /\ Becomes(disconnect(Connector, preventReconnect))
  /\ prevented' = (preventReconnect \/ prevented)
  /\ UNCHANGED nreg
  /\ Elsewhere

\* the application calls forceReconnect() on the connector
ForceReconnect ==
  /\ Len(socks) < MaxSockets
  /\ Becomes(forceReconnect(Connector, NULL))
  /\ prevented' = FALSE
  /\ UNCHANGED nreg
  /\ Elsewhere

\* the application calls forceReconnect() on the signaling client
ClientForceReconnect ==
  /\ Len(socks) < MaxSockets
  /\ Becomes(clientForceReconnect(Connector))
  /\ prevented' = FALSE
  /\ UNCHANGED nreg
  /\ Elsewhere

\* the application calls whenReady(callback)
WhenReady(throws) ==
  /\ nreg < MaxCallbacks
  /\ nreg' = nreg + 1
  /\ Becomes(whenReady(Connector, UserCallback(nreg + 1, throws)))
  /\ UNCHANGED prevented
  /\ Elsewhere

\* the application calls enableAutoReconnect() or disableAutoReconnect()
SetAutoReconnect(on) ==
  /\ shouldReconnect # on
  /\ shouldReconnect' = on
  /\ prevented' = IF on THEN FALSE ELSE prevented
  /\ UNCHANGED <<socks, socket, timers, oneTimeOpenHandlers, runs, nreg>>
  /\ Elsewhere

\* one connector, the signaling client that owns it, and its sockets
NextConn ==
  \/ \E room \in {NULL, R1}, how \in {"sync", "queued"} : Construct(room, how)
  \/ Connect
  \/ \E s \in 1..MaxSockets : SocketOpen(s)
  \/ \E s \in 1..MaxSockets : SocketClose(s)
  \/ \E s \in 1..MaxSockets : TimerFires(s)
  \/ \E p \in BOOLEAN : Disconnect(p)
  \/ ForceReconnect
  \/ ClientForceReconnect
  \/ \E t \in BOOLEAN : WhenReady(t)
  \/ \E on \in BOOLEAN : SetAutoReconnect(on)

\* ------------------------------------------------ ConsoleInterceptor
\* ConsoleInterceptor.patch(callback) of interceptor i, for one console
\* method (the five methods are patched alike): the current implementation
\* is saved, and console.log becomes a wrapper that invokes the callback
\* and then this.originalMethods.log
patch(k, i) ==
  IF k.isPatched[i] THEN k
  ELSE [k EXCEPT !.originalMethods[i] = k.console,
                 !.console = i,
                 !.isPatched[i] = TRUE]

\* ConsoleInterceptor.unpatch() of interceptor i
unpatch(k, i) ==
  IF ~k.isPatched[i] THEN k
  ELSE [k EXCEPT !.console = k.originalMethods[i],
                 !.isPatched[i] = FALSE]

\* the interceptors whose callbacks a call of function f invokes: the
\* wrapper of i invokes the callback of i and calls what
\* originalMethods.log of i holds at that moment
RECURSIVE Invoked(_, _, _)
Invoked(f, orig, fuel) ==
  IF f = 0 \/ fuel = 0 THEN {}
  ELSE {f} \cup Invoked(orig[f], orig, fuel - 1)

\* the call does not return: the wrappers call one another in a circle
RECURSIVE Recurses(_, _, _)
Recurses(f, orig, fuel) ==
  IF f = 0 THEN FALSE
  ELSE IF fuel = 0 THEN TRUE
  ELSE Recurses(orig[f], orig, fuel - 1)

\* the console and the interceptors
Console == [console |-> console, originalMethods |-> originalMethods,
            isPatched |-> isPatched]

\* what no step of the console changes
ElsewhereConsole ==
  /\ UNCHANGED bvars
  /\ UNCHANGED rvars
  /\ UNCHANGED fvars
  /\ UNCHANGED cvars
  /\ UNCHANGED pvars

\* interceptor i calls patch()
Patch(i) ==
  /\ LET k == patch(Console, i)
     IN /\ console' = k.console
        /\ originalMethods' = k.originalMethods
        /\ isPatched' = k.isPatched
  /\ called' = NoCall
  /\ ElsewhereConsole

\* interceptor i calls unpatch()
Unpatch(i) ==
  /\ LET k == unpatch(Console, i)
     IN /\ console' = k.console
        /\ originalMethods' = k.originalMethods
        /\ isPatched' = k.isPatched
  /\ called' = NoCall
  /\ ElsewhereConsole

\* the application calls console.log()
ConsoleLog ==
  /\ called' = [made |-> TRUE,
                who |-> Invoked(console, originalMethods, NumInterceptors + 1),
                overflow |-> Recurses(console, originalMethods, NumInterceptors + 1)]
  /\ UNCHANGED <<console, originalMethods, isPatched>>
  /\ ElsewhereConsole

\* interceptors that patch and unpatch in any order, and console calls
NextConsole ==
  \/ \E i \in Interceptors : Patch(i)
  \/ \E i \in Interceptors : Unpatch(i)
  \/ ConsoleLog

\* ------------------------------------- P2PSignalingClient: rooms and peers
\* data.type of a frame
FrameType(fr) == IF "type" \in DOMAIN fr THEN fr.type ELSE ""

\* how many frames may still be unhandled by their clients when the broker
\* serves the next event
MaxOutbox == 0

\* mutant: room-left leaves the list of peers as it is
handleSignalingMessage_KeepsPeers(v, data) ==
  LET t == FrameType(data)
  IN IF t = "room-joined" THEN [v EXCEPT !.currentRoom = data.room]
     ELSE IF t = "room-left" THEN [v EXCEPT !.currentRoom = NULL]
     ELSE IF t = "room-peers" THEN [v EXCEPT !.roomPeers = data.peers]
     ELSE IF t = "peer-joined"
       THEN IF data.peerId \notin Range(v.roomPeers)
              THEN [v EXCEPT !.roomPeers = Append(@, data.peerId)]
              ELSE v
     ELSE IF t = "peer-left"
       THEN [v EXCEPT !.roomPeers = SelectSeq(@, LAMBDA id : id # data.peerId)]
     ELSE v

\* P2PSignalingClient.handleSignalingMessage(data), the fields currentRoom
\* and roomPeers: the broker's room-peers and peer-* frames always carry
\* their `peers` and `peerId`, and no other case touches the two fields
handleSignalingMessage(v, data) ==
  LET t == FrameType(data)
  IN IF t = "room-joined" THEN [v EXCEPT !.currentRoom = data.room]
     ELSE IF t = "room-left" THEN [v EXCEPT !.currentRoom = NULL, !.roomPeers = <<>>]
     ELSE IF t = "room-peers" THEN [v EXCEPT !.roomPeers = data.peers]
     ELSE IF t = "peer-joined"
       THEN IF data.peerId \notin Range(v.roomPeers)
              THEN [v EXCEPT !.roomPeers = Append(@, data.peerId)]
              ELSE v
     ELSE IF t = "peer-left"
       THEN [v EXCEPT !.roomPeers = SelectSeq(@, LAMBDA id : id # data.peerId)]
     ELSE v

\* what a P2PSignalingClient sends: joinRoom(), leaveRoom(), and an offer
\* to a peer
ViewFrames ==
  { JsonFrame(Obj("join-room", ABSENT, ABSENT, [isStr |-> TRUE, chars |-> R])) : R \in {R1, R2} }
  \cup { LeaveFrame, JsonFrame(Obj("offer", 2, ABSENT, NoRoomField)) }

\* the frames of `sent` written to connection c
WrittenTo(c) ==
  LET mine == SelectSeq(sent, LAMBDA e : e.to = c)
  IN [k \in 1..Len(mine) |-> mine[k].frame]

\* the frames no client has handled yet
Unhandled == UNION { {<<c, k>> : k \in 1..Len(outbox[c])} : c \in Conn }

\* the clients keep up with the broker
KeepUp == Cardinality(Unhandled) <= MaxOutbox

\* what no step of a signaling client changes
ElsewhereView ==
  /\ UNCHANGED rvars
  /\ UNCHANGED fvars
  /\ UNCHANGED cvars
  /\ UNCHANGED ivars

\* the handler returns to the event loop; the frames it wrote travel to
\* the clients.  The client of a connection that is no longer open is
\* forgotten: nothing reaches it, and nothing depends on it
ReturnToClients ==
  /\ op # IDLE
  /\ op' = IDLE
  /\ sent' = <<>>
  /\ outbox' = [c \in Conn |-> IF ws[c] = "OPEN" THEN outbox[c] \o WrittenTo(c)
                                ELSE <<>>]
  /\ view' = [c \in Conn |-> IF ws[c] = "OPEN" THEN view[c]
                              ELSE [currentRoom |-> NULL, roomPeers |-> <<>>]]
  /\ UNCHANGED <<env, conns, ws, hnd, closeCode, clients, rooms, wire>>
  /\ ElsewhereView

\* WebSocketConnector's onmessage of connection c: the next frame is parsed
\* and handed to handleSignalingMessage
OnSignalingMessage(c) ==
  /\ op = IDLE
  /\ outbox[c] # <<>>
  /\ view' = [view EXCEPT ![c] = handleSignalingMessage(@, Head(outbox[c]))]
  /\ outbox' = [outbox EXCEPT ![c] = Tail(@)]
  /\ UNCHANGED bvars
  /\ ElsewhereView

\* the broker, and clients that join, switch and leave rooms, send offers,
\* disconnect and are evicted
NextView ==
  \/ \E o \in Origins, t \in Tokens : KeepUp /\ Connection(o, t)
  \/ \E c \in Conn, f \in ViewFrames : KeepUp /\ OnMessage(c, f)
  \/ \E c \in Conn : PeerClose(c)
  \/ \E c \in Conn : KeepUp /\ OnClose(c)
  \/ \E c \in Conn : OnPong(c)
  \/ KeepUp /\ Heartbeat
  \/ ReturnToClients
  \/ \E c \in Conn : OnSignalingMessage(c)

\* =====================================================================
\*                              properties
\* =====================================================================
\* the handler being served is the message handler of a registered client,
\* whose frame passed the rate limiter and parsed to an object with a
\* string `type`
Dispatched ==
  /\ op.kind = "message"
  /\ hnd[op.c]
  /\ op.c \in DOMAIN clients
  /\ op.allowed
  /\ op.f.json /\ op.f.root = "object" /\ ~op.f.proto
  /\ op.f.obj.type # NOTSTRING

\* ... and the frame is a signaling frame that names a target id
Targeted ==
  /\ Dispatched
  /\ op.f.obj.type \notin {"join-room", "leave-room"}
  /\ op.f.obj.to \notin {ABSENT, EMPTY}

\* the frames of `s` written to connection c
FramesTo(s, c) == SelectSeq(s, LAMBDA e : e.to = c)

\* T is registered with an open stream and shares a set room with S
SameRoomOpen(S, T) ==
  /\ T \in DOMAIN clients
  /\ ws[T] = "OPEN"
  /\ clients[S].room # NULL
  /\ clients[T].room = clients[S].room

\* the frame the broker writes when it forwards `obj` for client S
Relayed(obj, S) == JSONstringify(Forward(JSONparse(obj), S))

TargetError(T) ==
  [type |-> "error", message |-> "target-unavailable-or-different-room", to |-> T]

\* C1 -- same-room relay: a dispatched frame of client S that names a target
\* id T is written to T only if T is registered, its stream is open and S and
\* T are in the same (set) room; in every other case nothing is written to
\* any client but S, and S is sent
\* error{"target-unavailable-or-different-room", to: T}.  (A relay leaves the
\* registry and the room index as they were at dispatch time.)
C1_SameRoomRelay ==
  Targeted =>
    LET S == op.c
        T == op.f.obj.to
    IN IF SameRoomOpen(S, T)
         THEN sent = << [to |-> T, frame |-> Relayed(op.f.obj, S)] >>
         ELSE sent = << [to |-> S, frame |-> TargetError(T)] >>

\* C1 witness: S and T are both registered, open and in rooms, but in
\* different ones, and S's offer to T was answered with the error
C1_Witness ==
  /\ Targeted
  /\ op.f.obj.to \in DOMAIN clients
  /\ op.f.obj.to # op.c
  /\ ws[op.f.obj.to] = "OPEN"
  /\ clients[op.c].room # NULL
  /\ clients[op.f.obj.to].room # NULL
  /\ clients[op.f.obj.to].room # clients[op.c].room
  /\ sent = << [to |-> op.c, frame |-> TargetError(op.f.obj.to)] >>

\* room names a client or the index may hold
RoomNames == {R1, R2} \cup DOMAIN rooms \cup { clients[c].room : c \in DOMAIN clients }

\* a JavaScript Set holds no element twice
IsSet(s) == \A i, j \in 1..Len(s) : s[i] = s[j] => i = j

\* C2 -- membership consistency: for every registered client c and room name
\* R, c.room = R iff R is a key of the room index and c is in rooms[R]; every
\* id in a room set is a registered client; no id is in two room sets.
C2_MembershipConsistent ==
  /\ \A c \in DOMAIN clients : \A R \in RoomNames \ {NULL} :
       (clients[c].room = R) <=> (R \in DOMAIN rooms /\ c \in Range(rooms[R]))
  /\ \A R \in DOMAIN rooms : Range(rooms[R]) \subseteq DOMAIN clients
  /\ \A R \in DOMAIN rooms : IsSet(rooms[R])
  /\ \A Ra, Rb \in DOMAIN rooms :
       Ra # Rb => Range(rooms[Ra]) \cap Range(rooms[Rb]) = {}
  /\ NULL \notin DOMAIN rooms

PeerLeft(id) == [type |-> "peer-left", peerId |-> id]

\* C2 witness: a heartbeat tick evicted a member of a room that lives on
C2_Witness ==
  /\ op.kind = "heartbeat"
  /\ \E i \in 1..Len(sent) : \E a \in Conn :
       /\ sent[i].frame = PeerLeft(a)
       /\ a \notin DOMAIN clients
  /\ DOMAIN rooms # {}

\* C3 -- no empty room is retained: every room in the index has a member
C3_NoEmptyRoom ==
  \A R \in DOMAIN rooms : Len(rooms[R]) >= 1

\* C3 witness: the last member of a room left it while another room lives on
C3_Witness ==
  /\ Dispatched
  /\ op.f.obj.type = "leave-room"
  /\ sent = << [to |-> op.c, frame |-> [type |-> "room-left", room |-> R1]] >>
  /\ R1 \notin DOMAIN rooms
  /\ R2 \in DOMAIN rooms

\* C4 -- capacity bounds: the registry never holds more than MAX_CLIENTS
\* clients and no room more than MAX_ROOM_CLIENTS members
C4_CapacityBounds ==
  /\ Cardinality(DOMAIN clients) <= MAX_CLIENTS
  /\ \A R \in DOMAIN rooms : Len(rooms[R]) <= MAX_ROOM_CLIENTS

\* C4 witness: the registry is full, a room is full, and a join to that room
\* was refused
C4_Witness ==
  /\ Dispatched
  /\ op.f.obj.type = "join-room"
  /\ sent = << [to |-> op.c, frame |-> Error("room-full")] >>
  /\ Cardinality(DOMAIN clients) = MAX_CLIENTS
  /\ \E R \in DOMAIN rooms : Len(rooms[R]) = MAX_ROOM_CLIENTS

\* C5 -- every admitted connection received exactly one `id` frame, it
\* carries the connection's registry id, and it is the first frame the
\* broker ever wrote to that connection
C5_IdFrameFirst ==
  \A c \in Conn :
    hnd[c] => /\ wire[c].ids = 1
              /\ wire[c].first = IdFrame(c)

\* C5 witness: an admitted client is being sent membership frames, long
\* after its `id` frame
C5_Witness ==
  /\ Dispatched
  /\ op.f.obj.type = "join-room"
  /\ Len(FramesTo(sent, op.c)) >= 2
  /\ \E c \in Conn \ {op.c} : Len(FramesTo(sent, c)) >= 1
  /\ wire[op.c].first = IdFrame(op.c)

\* the admission conditions of a request, in the state the request arrives in
RegistryFull == Cardinality(DOMAIN clients) >= MAX_CLIENTS
OriginRefused(origin) ==
  Len(ALLOWED_ORIGINS) > 0 /\ origin \notin Range(ALLOWED_ORIGINS)
TokenRefused(token) == WS_SECRET # "" /\ token # WS_SECRET

\* C6 -- a connection that arrives when the registry is full, with an origin
\* outside a non-empty allow-list or with a token other than the configured
\* secret is closed with 1013, 1008 or 4003 respectively and is not inserted
\* in the registry; a rejected connection is never inserted later, is never
\* sent a frame (no `id` frame), and a frame it sends writes nothing and
\* changes nothing.
C6_Rejected ==
  [][ /\ op'.kind = "connection" =>
           LET c == op'.c
               codes == (IF RegistryFull THEN {1013} ELSE {})
                        \cup (IF OriginRefused(op'.origin) THEN {1008} ELSE {})
                        \cup (IF TokenRefused(op'.token) THEN {4003} ELSE {})
           IN /\ codes # {} => /\ closeCode'[c] \in codes
                               /\ ~hnd'[c]
                               /\ ws'[c] # "OPEN"
                               /\ clients' = clients
                               /\ sent' = <<>>
              /\ codes = {} => closeCode'[c] = 0 /\ hnd'[c]
      /\ \A c \in Conn :
           closeCode[c] # 0 => /\ closeCode'[c] = closeCode[c]
                               /\ ~hnd'[c]
                               /\ c \notin DOMAIN clients'
                               /\ wire'[c] = [first |-> NoFrame, ids |-> 0, ping |-> FALSE]
      /\ (op'.kind = "message" /\ closeCode[op'.c] # 0) =>
           /\ sent' = <<>>
           /\ UNCHANGED <<clients, rooms, ws, hnd, closeCode, wire>>
    ]_vars

\* C6 witness: a connection that was refused for its token sends a frame
\* while other clients are registered
C6_Witness ==
  /\ op.kind = "message"
  /\ closeCode[op.c] = 4003
  /\ op.allowed /\ op.f.json /\ op.f.obj.type = "join-room"
  /\ DOMAIN clients # {}

\* how many times frame fr is written to connection c in s
Count(s, c, fr) == Cardinality({ i \in 1..Len(s) : s[i].to = c /\ s[i].frame = fr })

RoomJoined(R) == [type |-> "room-joined", room |-> R]
PeerJoined(id) == [type |-> "peer-joined", peerId |-> id]
RoomLeft(R) == [type |-> "room-left", room |-> R]

FromBroker(fr) == "type" \in DOMAIN fr /\ "from" \notin DOMAIN fr

\* the step serves a join-room frame that succeeds: the frame is dispatched,
\* the name is valid and the room is not full when the frame arrives
JoinStep ==
  /\ op = IDLE
  /\ op'.kind = "message"
  /\ hnd[op'.c] /\ op'.c \in DOMAIN clients /\ op'.allowed
  /\ op'.f.json /\ op'.f.root = "object" /\ ~op'.f.proto
  /\ op'.f.obj.type = "join-room"
  /\ op'.f.obj.room.isStr
  /\ Len(op'.f.obj.room.chars) \in 1..MaxRoomNameLen
  /\ Range(op'.f.obj.room.chars) \subseteq NameChars
  /\ LET R == op'.f.obj.room.chars
     IN ~(R \in DOMAIN rooms /\ Len(rooms[R]) >= MAX_ROOM_CLIENTS)

\* the clients that are members of R before the step, the joiner left out
AlreadyIn(R, S) ==
  IF R \in DOMAIN rooms THEN Range(rooms[R]) \ {S} ELSE {}

\* the frames of a join are: room-joined to S, then one peer-joined to each
\* client of `targets`, then room-peers to S; whatever precedes them belongs
\* to the leave of the room S was in
JoinOrder(S, R, targets) ==
  \E k \in 1..Len(sent') :
    /\ sent'[k] = [to |-> S, frame |-> RoomJoined(R)]
    /\ \A j \in 1..(k - 1) :
         FrameType(sent'[j].frame) \notin {"room-joined", "peer-joined", "room-peers"}
    /\ Len(sent') = k + Cardinality(targets) + 1
    /\ \A j \in (k + 1)..(Len(sent') - 1) :
         sent'[j].frame = PeerJoined(S) /\ sent'[j].to \in targets
    /\ \A t \in targets : Count(sent', t, PeerJoined(S)) = 1
    /\ sent'[Len(sent')].to = S
    /\ FrameType(sent'[Len(sent')].frame) = "room-peers"

\* C7 (as amended) -- join notification order: a successful join-room of S
\* into R writes, in this order and in one handler, room-joined{R} to S,
\* then peer-joined{peerId: S} to each client that was already a member of R
\* and whose stream is open, then room-peers to S.
C7_JoinOrder ==
  [][ JoinStep =>
        LET S == op'.c
            R == op'.f.obj.room.chars
        IN JoinOrder(S, R, { m \in AlreadyIn(R, S) : ws[m] = "OPEN" })
    ]_vars

\* C7 as stated -- ... then peer-joined{peerId: S} to each client that was
\* already a member of R ...
C7_AsStated ==
  [][ JoinStep =>
        LET S == op'.c
            R == op'.f.obj.room.chars
        IN JoinOrder(S, R, AlreadyIn(R, S))
    ]_vars

\* C7 witness: a client that switched rooms joined a room with an open member
C7_Witness ==
  /\ Dispatched
  /\ op.f.obj.type = "join-room"
  /\ Len(sent) >= 4
  /\ \E k \in 2..(Len(sent) - 2) : \E m \in Conn \ {op.c} :
       /\ sent[k].frame = RoomJoined(R2) /\ sent[k].to = op.c
       /\ sent[k + 1] = [to |-> m, frame |-> PeerJoined(op.c)]
       /\ FrameType(sent[k + 2].frame) = "room-peers"

\* C8 -- on the joiner's own stream room-peers immediately follows
\* room-joined{R}, and its peers are exactly the members R had when the frame
\* arrived, the joiner left out (none when the joiner creates the room)
C8_RoomPeers ==
  [][ JoinStep =>
        LET S == op'.c
            R == op'.f.obj.room.chars
            mine == FramesTo(sent', S)
        IN /\ \E p \in 1..Len(mine) : mine[p].frame = RoomJoined(R)
           /\ \A p \in 1..Len(mine) :
                mine[p].frame = RoomJoined(R) =>
                  /\ p < Len(mine)
                  /\ DOMAIN mine[p + 1].frame = {"type", "peers"}
                  /\ mine[p + 1].frame.type = "room-peers"
                  /\ IsSet(mine[p + 1].frame.peers)
                  /\ Range(mine[p + 1].frame.peers) = AlreadyIn(R, S)
    ]_vars

\* C8 witness: the joiner is told of two peers
C8_Witness ==
  /\ Dispatched
  /\ op.f.obj.type = "join-room"
  /\ Len(sent) >= 1
  /\ sent[Len(sent)].to = op.c
  /\ FrameType(sent[Len(sent)].frame) = "room-peers"
  /\ Len(sent[Len(sent)].frame.peers) = 2

\* the step serves a leave-room frame of a client that is in a room
LeaveStep ==
  /\ op = IDLE
  /\ op'.kind = "message"
  /\ hnd[op'.c] /\ op'.c \in DOMAIN clients /\ op'.allowed
  /\ op'.f.json /\ op'.f.root = "object" /\ ~op'.f.proto
  /\ op'.f.obj.type = "leave-room"
  /\ clients[op'.c].room # NULL

\* the frames of a leave are one peer-left to each client of `targets`, then
\* room-left{R} to S if its stream is open; afterwards S is in no room
LeaveOrder(S, R, targets) ==
  LET n == Cardinality(targets)
  IN /\ \A t \in targets : Count(sent', t, PeerLeft(S)) = 1
     /\ \A j \in 1..n : sent'[j].frame = PeerLeft(S) /\ sent'[j].to \in targets
     /\ IF ws[S] = "OPEN"
          THEN /\ Len(sent') = n + 1
               /\ sent'[n + 1] = [to |-> S, frame |-> RoomLeft(R)]
          ELSE Len(sent') = n
     /\ clients'[S].room = NULL
     /\ R \in DOMAIN rooms' => S \notin Range(rooms'[R])

\* C9 (as amended) -- leave notification order: when S, a member of R,
\* sends leave-room, every remaining member of R whose stream is open is
\* written exactly one peer-left{peerId: S}, then S (if its stream is open)
\* room-left{R}; afterwards S.room is unset and S is not in rooms[R].
C9_LeaveOrder ==
  [][ LeaveStep =>
        LET S == op'.c
            R == clients[S].room
        IN /\ Len(sent') >= Cardinality({ m \in AlreadyIn(R, S) : ws[m] = "OPEN" })
           /\ LeaveOrder(S, R, { m \in AlreadyIn(R, S) : ws[m] = "OPEN" })
    ]_vars

\* C9 as stated -- ... every remaining member of R receives exactly one
\* peer-left{peerId: S} ...
C9_AsStated ==
  [][ LeaveStep =>
        LET S == op'.c
            R == clients[S].room
        IN /\ Len(sent') >= Cardinality(AlreadyIn(R, S))
           /\ LeaveOrder(S, R, AlreadyIn(R, S))
    ]_vars

\* C9 witness: two members stayed behind and were told before the leaver
C9_Witness ==
  /\ Dispatched
  /\ op.f.obj.type = "leave-room"
  /\ Len(sent) = 3
  /\ sent[1].frame = PeerLeft(op.c)
  /\ sent[2].frame = PeerLeft(op.c)
  /\ sent[1].to # sent[2].to
  /\ sent[3] = [to |-> op.c, frame |-> RoomLeft(R1)]
  /\ clients[op.c].room = NULL

\* A goes away in the step: its close event is served or the heartbeat
\* evicts it
GoesAway(A) == A \in DOMAIN clients /\ A \notin DOMAIN clients'

\* B's stream is open at the moment the step removes A (the heartbeat visits
\* the clients in id order and terminates those it evicts)
OpenWhenRemoved(B, A) ==
  /\ ws[B] = "OPEN"
  /\ ~(op'.kind = "heartbeat" /\ B < A /\ GoesAway(B))

\* peer-left{A} is written in a close or heartbeat step only when that step
\* takes the registered member A out of its room, and never once A is gone
AnnouncedOnlyOnDeparture(A) ==
  /\ \A B \in Conn :
       (op'.kind \in {"close", "heartbeat"} /\ Count(sent', B, PeerLeft(A)) > 0) =>
         /\ GoesAway(A)
         /\ clients[A].room # NULL
         /\ clients[A].room \in DOMAIN rooms
         /\ {A, B} \subseteq Range(rooms[clients[A].room])
  /\ A \notin DOMAIN clients =>
         \A B \in Conn : Count(sent', B, PeerLeft(A)) = 0

\* C10 (as amended) -- a departure is announced exactly once: when member A
\* of room R goes away (close only, eviction only, or eviction followed by
\* the close event), every other member of R whose stream is open at that
\* moment is written exactly one peer-left{peerId: A}, and stays a member of
\* R unless the same heartbeat tick evicts it as well.
C10_DepartureOnce ==
  [][ \A A \in Conn :
        /\ AnnouncedOnlyOnDeparture(A)
        /\ (GoesAway(A) /\ clients[A].room # NULL) =>
             LET R == clients[A].room
             IN \A B \in AlreadyIn(R, A) :
                  /\ Count(sent', B, PeerLeft(A)) = IF OpenWhenRemoved(B, A) THEN 1 ELSE 0
                  /\ B \in DOMAIN clients' =>
                       R \in DOMAIN rooms' /\ B \in Range(rooms'[R])
                  /\ B \notin DOMAIN clients' =>
                       /\ op'.kind = "heartbeat"
                       /\ ~clients[B].isAlive \/ ws[B] # "OPEN"
    ]_vars

\* C10 as stated -- ... every other member of R receives exactly one
\* peer-left{peerId: A} and stays a member of R ...
C10_AsStated ==
  [][ \A A \in Conn :
        /\ AnnouncedOnlyOnDeparture(A)
        /\ (GoesAway(A) /\ clients[A].room # NULL) =>
             LET R == clients[A].room
             IN \A B \in AlreadyIn(R, A) :
                  /\ Count(sent', B, PeerLeft(A)) = 1
                  /\ R \in DOMAIN rooms' /\ B \in Range(rooms'[R])
    ]_vars

\* C10 witness: the heartbeat evicted a member of a room of three, and each
\* of the two that stay was told once
C10_Witness ==
  /\ op.kind = "heartbeat"
  /\ \E A \in Conn \ DOMAIN clients : \E R \in DOMAIN rooms :
       /\ Len(rooms[R]) = 2
       /\ \A B \in Range(rooms[R]) : Count(sent, B, PeerLeft(A)) = 1

\* ------------------------------------------------------------- C11
\* the step serves a join-room frame of a registered client that passed the
\* rate limiter and names a valid room
JoinRequest ==
  /\ op = IDLE
  /\ op'.kind = "message"
  /\ hnd[op'.c] /\ op'.c \in DOMAIN clients /\ op'.allowed
  /\ op'.f.json /\ op'.f.root = "object" /\ ~op'.f.proto
  /\ op'.f.obj.type = "join-room"
  /\ op'.f.obj.room.isStr
  /\ Len(op'.f.obj.room.chars) \in 1..MaxRoomNameLen
  /\ Range(op'.f.obj.room.chars) \subseteq NameChars

\* room R holds MAX_ROOM_CLIENTS members (or more) when the frame arrives
HoldsMax(R) == R \in DOMAIN rooms /\ Len(rooms[R]) >= MAX_ROOM_CLIENTS

\* C11 -- room-full rejection: a join-room for a room that already holds
\* MAX_ROOM_CLIENTS members writes exactly one frame, error{"room-full"} to
\* the sender, and leaves every client's room and the room index as they
\* were (so no room-joined, room-peers, peer-joined, peer-left or room-left).
C11_RoomFullRejected ==
  [][ (JoinRequest /\ HoldsMax(op'.f.obj.room.chars)) =>
        /\ sent' = << [to |-> op'.c, frame |-> Error("room-full")] >>
        /\ clients' = clients
        /\ rooms' = rooms ]_vars

\* C11 witness: a client that is a member of one room was refused by a full
\* other room and is still where it was
C11_Witness ==
  /\ op.kind = "message" /\ op.allowed
  /\ op.c \in DOMAIN clients
  /\ sent = << [to |-> op.c, frame |-> Error("room-full")] >>
  /\ clients[op.c].room # NULL
  /\ clients[op.c].room # op.f.obj.room.chars
  /\ Len(rooms[op.f.obj.room.chars]) = MAX_ROOM_CLIENTS

\* ------------------------------------------------------------- C12
\* the broker's state once the handler of the step has returned
StateAfter == [clients |-> clients', rooms |-> rooms', ws |-> ws', sent |-> <<>>,
               pinged |-> {}, bad |-> {}]

\* the state the broker is in when the sender of the join-room frame served
\* by this step sends leave-room as its very next frame, no other event
\* being served in between
AfterLeave == MessageHandler(StateAfter, op'.c, LeaveFrame, TRUE)

\* C12 (as amended) -- join/leave round trip: a successful join-room R of a
\* client S that was in no room, followed immediately by leave-room of S,
\* leaves the room index and every client's room field as they were before
\* the join-room.
C12_RoundTrip ==
  [][ (JoinStep /\ clients[op'.c].room = NULL) =>
        /\ AfterLeave.rooms = rooms
        /\ AfterLeave.clients = clients ]_vars

\* C12 as stated: ... whatever room S was in before the join-room
C12_AsStated ==
  [][ JoinStep =>
        /\ AfterLeave.rooms = rooms
        /\ AfterLeave.clients = clients ]_vars

\* C12 witness: a client that was in no room has joined a room that another
\* client is a member of
C12_Witness ==
  /\ op.kind = "message" /\ op.allowed
  /\ op.c \in DOMAIN clients
  /\ Len(sent) >= 3
  /\ sent[1] = [to |-> op.c, frame |-> RoomJoined(op.f.obj.room.chars)]
  /\ Len(rooms[op.f.obj.room.chars]) >= 2
  /\ \E R \in DOMAIN rooms : R # op.f.obj.room.chars

\* ------------------------------------------------------------- C13
\* the rooms and their members, the order of insertion left out
Membership(rs) == [R \in DOMAIN rs |-> Range(rs[R])]

\* C13 -- re-joining the current room: when a client that is in room R sends
\* join-room R, the membership of every room is afterwards what it was, and
\* the client is sent a fresh room-joined{R} and a room-peers frame,
\* whatever the occupancy of R, R holding MAX_ROOM_CLIENTS members included.
C13_Rejoin ==
  [][ (JoinRequest /\ clients[op'.c].room = op'.f.obj.room.chars) =>
        LET S == op'.c
            R == op'.f.obj.room.chars
        IN /\ Membership(rooms') = Membership(rooms)
           /\ clients'[S].room = R
           /\ Count(sent', S, RoomJoined(R)) = 1
           /\ \E k \in 1..Len(sent') :
                sent'[k].to = S /\ FrameType(sent'[k].frame) = "room-peers" ]_vars

\* ------------------------------------------------------------- C14
\* the frame served is a signaling frame: dispatched, and neither join-room
\* nor leave-room
Signaling ==
  /\ Dispatched
  /\ op.f.obj.type \notin {"join-room", "leave-room"}

\* frames the broker forwards carry a `from` field, frames of its own do not
IsForwarded(fr) == "from" \in DOMAIN fr

\* value texts that JSON.parse followed by JSON.stringify gives back as they
\* were: strings, and numbers that a double represents exactly
ExactlyKept == {NoData, "\"sdp\"", "7"}

CountTo(s, c) == Cardinality({ i \in 1..Len(s) : s[i].to = c })

\* C15 -- room fan-out: a signaling frame without a `to` field sent by a
\* client S that is in room R is written exactly once to every other member
\* of R whose stream is open and to nobody else (not to S, not to a client
\* outside R); when S is in no room nothing is written at all.
C15_FanOut ==
  (Signaling /\ op.f.obj.to = ABSENT) =>
    LET S == op.c
        R == clients[S].room
    IN IF R = NULL
         THEN sent = <<>>
         ELSE /\ \A k \in 1..Len(sent) : sent[k].frame = Relayed(op.f.obj, S)
              /\ \A m \in Conn :
                   CountTo(sent, m) =
                     IF m \in Range(rooms[R]) \ {S} /\ ws[m] = "OPEN" THEN 1 ELSE 0

\* C15 witness: S shares its room with an open member and with a member
\* whose stream is closing: only the open one got the frame, once
C15_Witness ==
  /\ Signaling /\ op.f.obj.to = ABSENT
  /\ clients[op.c].room # NULL
  /\ Len(rooms[clients[op.c].room]) = 3
  /\ Len(sent) = 1
  /\ sent[1].to # op.c

\* ------------------------------------------------------------- C16
\* C16 -- a signaling frame whose `to` is the empty string is treated as a
\* targeted frame with an unavailable target: the only frame written is
\* error{"target-unavailable-or-different-room"} to the sender, so the frame
\* reaches no client and is not fanned out to the sender's room.
C16_EmptyTarget ==
  (Signaling /\ op.f.obj.to = EMPTY) =>
    /\ Len(sent) = 1
    /\ sent[1].to = op.c
    /\ FrameType(sent[1].frame) = "error"
    /\ sent[1].frame.message = "target-unavailable-or-different-room"

\* ------------------------------------------------------------- C17
\* number of frames that passed the limiter at the limiter times a..b
RECURSIVE PassedIn(_, _)
PassedIn(a, b) == IF a > b THEN 0 ELSE passed[a] + PassedIn(a + 1, b)

\* the frames that passed in the window of one second that starts at t
PassedInWindow(t) == PassedIn(t, Min(t + QuantaPerSec, MaxClock))

\* C17 -- rate bound: in every window of one second, measured by the clock
\* as the limiter reads it, at most MESSAGE_BURST + MESSAGE_RATE_PER_SEC
\* frames of the client pass the rate limiter, whatever the arrival pattern
\* of its frames.
C17_RateBound ==
  \A t \in 0..MaxClock : PassedInWindow(t) <= MESSAGE_BURST + MESSAGE_RATE_PER_SEC

\* C17 witness: a window in which the bound is attained: the burst passed at
\* its start, and every token credited during the second was used
C17_Witness ==
  \E t \in 0..(MaxClock - QuantaPerSec) :
    /\ PassedInWindow(t) = MESSAGE_BURST + MESSAGE_RATE_PER_SEC
    /\ passed[t] = MESSAGE_BURST

\* ------------------------------------------------------------- C19
\* C19 -- clock jumps grant no free tokens: whatever the clock does between
\* two frames of a client, the tokens rateAllow credits to the bucket at the
\* second frame are at most MESSAGE_RATE_PER_SEC times the time that really
\* passed between the two frames.
C19_NoFreeTokens ==
  refill.credit <= MESSAGE_RATE_PER_SEC * refill.real

\* ------------------------------------------------------------- C18
\* the step serves a frame of a registered client that the rate limiter
\* refuses: rateAllow found less than one token in the bucket
RateLimitedStep ==
  /\ op = IDLE
  /\ op'.kind = "message"
  /\ hnd[op'.c] /\ op'.c \in DOMAIN clients
  /\ ~op'.allowed

\* C18 -- a frame that arrives when the sender's bucket holds less than one
\* token is dropped: the only frame written is error{"rate-limit"} to the
\* sender; the frame is not dispatched (no membership change, nothing is
\* written to another client), and the sender stays registered, in its
\* room, with its stream open.
C18_RateLimited ==
  [][ RateLimitedStep =>
        /\ sent' = << [to |-> op'.c, frame |-> Error("rate-limit")] >>
        /\ clients' = clients
        /\ rooms' = rooms
        /\ ws' = ws ]_vars

\* C18 witness: a join-room of a client that is in another room, with a
\* room-mate, was refused by the limiter
C18_Witness ==
  /\ op.kind = "message" /\ ~op.allowed
  /\ op.c \in DOMAIN clients
  /\ op.f.obj.type = "join-room"
  /\ clients[op.c].room # NULL
  /\ clients[op.c].room # op.f.obj.room.chars
  /\ Len(rooms[clients[op.c].room]) >= 2
  /\ sent = << [to |-> op.c, frame |-> Error("rate-limit")] >>

\* ------------------------------------------------------------- C20
\* the step is a heartbeat tick
HeartbeatStep == op = IDLE /\ op'.kind = "heartbeat"

\* what the tick evicts: a registered client whose alive flag is false or
\* whose stream is not open
Dead(A) ==
  /\ A \in DOMAIN clients
  /\ ~clients[A].isAlive \/ ws[A] # "OPEN"

\* the members of R that the tick does not evict, in insertion order
Survivors(R) == SelectSeq(rooms[R], LAMBDA m : ~Dead(m))

\* every dead client is terminated and taken out of the registry and of its
\* room in this tick, every other client stays; each member that remains
\* in a room is written one peer-left for each member the tick evicted; a
\* room whose members were all evicted is deleted
Evictions ==
  /\ \A A \in DOMAIN clients :
       IF Dead(A)
         THEN /\ A \notin DOMAIN clients'
              /\ ws'[A] # "OPEN"
              /\ \A R \in DOMAIN rooms' : A \notin Range(rooms'[R])
         ELSE /\ A \in DOMAIN clients'
              /\ clients'[A].room = clients[A].room
              /\ ws'[A] = ws[A]
  /\ \A R \in DOMAIN rooms :
       /\ R \in DOMAIN rooms' <=> Survivors(R) # <<>>
       /\ R \in DOMAIN rooms' => rooms'[R] = Survivors(R)
       /\ \A A \in Range(rooms[R]), B \in Range(Survivors(R)) :
            Count(sent', B, PeerLeft(A)) = IF Dead(A) THEN 1 ELSE 0
  /\ DOMAIN rooms' \subseteq DOMAIN rooms

\* C20 (as amended) -- heartbeat eviction: at a tick every registered client
\* whose alive flag is false or whose stream is not open is terminated and
\* removed from the registry and from its room; each remaining member of
\* the room is written peer-left for it, the room is deleted if it became
\* empty, and the evicted client is sent no room-left and no error: the
\* tick writes peer-left frames only, and an evicted client is written one
\* only for a room-mate that the same tick evicted before it.
C20_Eviction ==
  [][ HeartbeatStep =>
        /\ Evictions
        /\ \A k \in 1..Len(sent') :
             /\ FrameType(sent'[k].frame) = "peer-left"
             /\ FromBroker(sent'[k].frame)
             /\ Dead(sent'[k].to) =>
                  /\ sent'[k].frame.peerId < sent'[k].to
                  /\ ws[sent'[k].to] = "OPEN"
                  /\ clients[sent'[k].to].room = clients[sent'[k].frame.peerId].room
    ]_vars

\* C20 as stated: ... and the evicted client itself is sent no frame
C20_AsStated ==
  [][ HeartbeatStep =>
        /\ Evictions
        /\ \A k \in 1..Len(sent') : ~Dead(sent'[k].to) ]_vars

\* C20 witness: two clients have been evicted, and this tick told a member
\* that stays in its room (and now awaits its pong) of an eviction
C20_Witness ==
  /\ op.kind = "heartbeat"
  /\ \E A, B \in 1..conns :
       /\ A # B
       /\ hnd[A] /\ hnd[B]
       /\ A \notin DOMAIN clients /\ B \notin DOMAIN clients
       /\ ws[A] = "CLOSING" /\ ws[B] = "CLOSING"
  /\ \E k \in 1..Len(sent) :
       /\ sent[k].to \in DOMAIN clients
       /\ clients[sent[k].to].room # NULL
       /\ ~clients[sent[k].to].isAlive

\* ------------------------------------------------------------- C21
\* every ping written to A has had its pong processed
Answered(A) == ~wire[A].ping

\* C21 -- a registered client whose stream is open and whose pong for every
\* ping written to it has been processed when the heartbeat ticks is not
\* evicted by the tick: it stays in the registry and in its room, and its
\* stream stays open, whatever the other clients did and whoever else the
\* tick evicts.
C21_AnsweredNotEvicted ==
  [][ HeartbeatStep =>
        \A A \in DOMAIN clients :
          (ws[A] = "OPEN" /\ Answered(A)) =>
            /\ A \in DOMAIN clients'
            /\ ws'[A] = "OPEN"
            /\ clients'[A].room = clients[A].room
            /\ clients[A].room # NULL =>
                  /\ clients[A].room \in DOMAIN rooms'
                  /\ A \in Range(rooms'[clients[A].room])
    ]_vars

\* C21 witness: a tick has evicted B, which never answered its ping, and
\* told its room-mate A, which joined before B, answered the ping of the
\* tick that pinged B, and has now been pinged again
C21_Witness ==
  /\ op.kind = "heartbeat"
  /\ \E A, B \in 1..conns :
       /\ A < B
       /\ A \in DOMAIN clients /\ ws[A] = "OPEN"
       /\ clients[A].room # NULL
       /\ wire[A].ping /\ ~clients[A].isAlive
       /\ B \notin DOMAIN clients /\ wire[B].ping
       /\ \E k \in 1..Len(sent) : sent[k] = [to |-> A, frame |-> PeerLeft(B)]

\* ------------------------------------------------------------- C22
\* the step handles a pong of A
PongStep(A) == op = IDLE /\ op'.kind = "pong" /\ op'.c = A

\* A is in the registry or in some room
Present(cl, rs, A) ==
  \/ A \in DOMAIN cl
  \/ \E R \in DOMAIN rs : A \in Range(rs[R])

\* C22 -- eviction within two ticks.  A client that is registered after a
\* tick has been pinged by it and its ping is unanswered; the ping stays
\* unanswered, and the alive flag false, until a pong of the client is
\* handled; and a tick that finds a registered client with an unanswered
\* ping removes it from the registry and from its room.  So a client that
\* answers no ping from some moment on is gone from registry and room
\* after the second tick that follows, at the latest.
C22_EvictedWithinTwoTicks ==
  [][ \A A \in DOMAIN clients :
        /\ (HeartbeatStep /\ A \in DOMAIN clients') =>
             (wire'[A].ping /\ ~clients'[A].isAlive /\ Answered(A))
        /\ (~Answered(A) /\ ~PongStep(A) /\ A \in DOMAIN clients') =>
             (wire'[A].ping /\ ~clients'[A].isAlive)
        /\ (HeartbeatStep /\ ~Answered(A)) => ~Present(clients', rooms', A)
    ]_vars

\* C22 witness: the tick has removed a room member whose last ping was
\* never answered, and has told a room-mate that stays
C22_Witness ==
  /\ op.kind = "heartbeat"
  /\ \E A \in 1..conns :
       /\ hnd[A] /\ wire[A].ping
       /\ ~Present(clients, rooms, A)
       /\ \E k \in 1..Len(sent) :
            /\ sent[k].frame = PeerLeft(A)
            /\ sent[k].to \in DOMAIN clients
            /\ ws[sent[k].to] = "OPEN"

\* ------------------------------------------------------------- C23
\* the handler serves a frame of a registered client that passed the rate
\* limiter and is not JSON
NonJsonStep ==
  /\ op = IDLE
  /\ op'.kind = "message"
  /\ op'.c \in DOMAIN clients
  /\ op'.allowed
  /\ ~op'.f.json

\* C23 -- non-JSON passthrough: a frame that is not JSON is, if the sender
\* is in a room, written unmodified, with no `from` added, once to every
\* other open member of that room and to nobody else; if the sender is in no
\* room nothing is written to anyone.  Registry and room index stay as
\* they are.
C23_Passthrough ==
  [][ NonJsonStep =>
        LET S == op'.c
            R == clients[S].room
        IN /\ clients' = clients
           /\ rooms' = rooms
           /\ IF R = NULL
                THEN sent' = <<>>
                ELSE /\ \A k \in 1..Len(sent') :
                          /\ sent'[k].frame = [raw |-> op'.f.raw]
                          /\ sent'[k].to \in Range(rooms[R]) \ {S}
                     /\ \A T \in Range(rooms[R]) \ {S} :
                          CountTo(sent', T) = IF ws[T] = "OPEN" THEN 1 ELSE 0
    ]_vars

\* C23 witness: a payload that is not UTF-8 has been passed on to a
\* room-mate, and what was written differs from what arrived
C23_Witness ==
  /\ op.kind = "message"
  /\ ~op.f.json
  /\ op.f.raw = IllFormed
  /\ \E k \in 1..Len(sent) :
       /\ sent[k].to # op.c
       /\ "raw" \in DOMAIN sent[k].frame
       /\ sent[k].frame.raw # op.f.raw

\* ------------------------------------------------------------- C24
\* the handler serves a frame of a registered client that passed the rate
\* limiter and is JSON
JsonStep ==
  /\ op = IDLE
  /\ op'.kind = "message"
  /\ op'.c \in DOMAIN clients
  /\ op'.allowed
  /\ op'.f.json

\* the frame's root is not an object, it has an own key __proto__ or
\* constructor, or its `type` is not a string
InvalidMessage(f) ==
  \/ f.root # "object"
  \/ f.proto
  \/ f.obj.type = NOTSTRING

\* the frame is a join-room whose room does not match the name pattern
\* ^[A-Za-z0-9_-]{1,64}$
InvalidRoomName(f) ==
  /\ ~InvalidMessage(f)
  /\ f.obj.type = "join-room"
  /\ \/ ~f.obj.room.isStr
     \/ Len(f.obj.room.chars) \notin 1..MaxRoomNameLen
     \/ \E i \in 1..Len(f.obj.room.chars) : f.obj.room.chars[i] \notin NameChars

\* C24 -- protocol errors leave the state unchanged: a frame whose root is
\* not an object, that lacks a string `type` or has an own key __proto__ or
\* constructor is answered with invalid-message, a join-room whose room
\* does not match the name pattern with invalid-room-name, and no other
\* frame is answered with either; the answer is the one frame written, it
\* goes to the sender, and registry, room index, memberships and streams
\* are as before, the sender still connected.
C24_ProtocolErrors ==
  [][ JsonStep =>
        LET S == op'.c
            f == op'.f
            answer == IF InvalidMessage(f) THEN Error("invalid-message")
                      ELSE Error("invalid-room-name")
        IN /\ (InvalidMessage(f) \/ InvalidRoomName(f)) =>
                /\ sent' = << [to |-> S, frame |-> answer] >>
                /\ clients' = clients
                /\ rooms' = rooms
                /\ ws' = ws
                /\ S \in DOMAIN clients' /\ ws'[S] = "OPEN"
           /\ ~(InvalidMessage(f) \/ InvalidRoomName(f)) =>
                \A k \in 1..Len(sent') :
                  sent'[k].frame \notin {Error("invalid-message"),
                                         Error("invalid-room-name")}
    ]_vars

\* C24 witness: a member of a room with a room-mate asked to join a room
\* whose name is too long and was answered invalid-room-name
C24_Witness ==
  /\ op.kind = "message"
  /\ op.f.json /\ op.f.obj.type = "join-room"
  /\ Len(op.f.obj.room.chars) > MaxRoomNameLen
  /\ op.c \in DOMAIN clients
  /\ clients[op.c].room # NULL
  /\ Len(rooms[clients[op.c].room]) >= 2
  /\ sent = << [to |-> op.c, frame |-> Error("invalid-room-name")] >>

\* ------------------------------------------------------------- C25
\* a frame of a registered client is served and a write of the handler fails
WriteFailStep == op = IDLE /\ op'.kind = "message/write-error"

\* what the handler would have done had no write failed
Unfailed == MessageHandler(State, op'.c, op'.f, TRUE)

StatusStep == op = IDLE /\ op'.kind = "status"

\* C26 -- GET /status is read-only and consistent with the broker state at
\* the moment it is served: registry and room index are not changed;
\* totalClients is the number of ids in `clients`, which are the registered
\* ids; `rooms` equals the room index; every id listed under a room is
\* listed in `clients`, and no listed room is empty.
C26_Status ==
  [][ StatusStep =>
        LET res == op'.res
        IN /\ clients' = clients /\ rooms' = rooms
           /\ res.totalClients = Len(res.clients)
           /\ Range(res.clients) = DOMAIN clients
           /\ IsSet(res.clients)
           /\ res.rooms = rooms
           /\ \A R \in DOMAIN res.rooms :
                /\ Range(res.rooms[R]) \subseteq Range(res.clients)
                /\ res.rooms[R] # <<>>
    ]_vars

\* C26 witness: the status was served while a room named __proto__ had a
\* member, and the response lists no such room
C26_Witness ==
  /\ op.kind = "status"
  /\ R2 \in DOMAIN rooms
  /\ rooms[R2] # <<>>
  /\ R2 \notin DOMAIN op.res.rooms

\* ------------------------------------------------------------- C27
Increasing(q) == \A i, j \in 1..Len(q) : i < j => q[i] < q[j]

MessageStep(c) ==
  /\ op = IDLE
  /\ op'.kind \in {"message", "message/write-error"}
  /\ op'.c = c

\* the step admits connection c
AdmitStep(c) == op = IDLE /\ op'.kind = "connection" /\ op'.c = c /\ hnd'[c]

\* a write to c failed in this step, which terminated its stream
WriteFailedOn(c) ==
  /\ op'.kind \in {"message/write-error", "close/write-error", "heartbeat/write-error"}
  /\ op'.bad = c

MemberOf(cl, rs, Y) ==
  IF Y \in DOMAIN cl /\ cl[Y].room # NULL /\ cl[Y].room \in DOMAIN rs
       /\ Y \in Range(rs[cl[Y].room])
    THEN cl[Y].room ELSE NULL

\* the step handles the close event of Y
CloseStep(Y) ==
  op = IDLE /\ op'.kind \in {"close", "close/write-error"} /\ op'.c = Y

\* the step is a heartbeat tick that evicts Y: its alive flag was false, its
\* stream was not open, or a write of this tick to it failed
EvictionOf(Y) ==
  /\ op = IDLE /\ op'.kind \in {"heartbeat", "heartbeat/write-error"}
  /\ Dead(Y) \/ WriteFailedOn(Y)
  /\ Y \notin DOMAIN clients'

\* the step serves a join-room or leave-room frame of Y
OwnMembershipFrame(Y) ==
  /\ MessageStep(Y)
  /\ op'.f.json /\ op'.f.obj.type \in {"join-room", "leave-room"}

\* the stream of Y closes: the peer closed it, or it broke
StreamCloses(Y) == op' = op /\ ws[Y] = "OPEN" /\ ws'[Y] = "CLOSING"

\* C29 -- misbehaviour is contained: a registered client Y is removed from
\* the registry only by its own close event or by a heartbeat tick that
\* evicts it; it loses its room membership only then or by a join-room or
\* leave-room frame of its own; its stream leaves the open state only
\* because the stream itself closes, a tick evicts it, or a write to it
\* fails.  A frame of another client X, whatever it is, leaves Y registered,
\* its record and membership as they were, and its stream as it was unless
\* the write of a frame to Y failed.
C29_Contained ==
  [][ \A Y \in DOMAIN clients :
        /\ Y \notin DOMAIN clients' => (CloseStep(Y) \/ EvictionOf(Y))
        /\ (MemberOf(clients, rooms, Y) # NULL
              /\ MemberOf(clients', rooms', Y) # MemberOf(clients, rooms, Y)) =>
             (CloseStep(Y) \/ EvictionOf(Y) \/ OwnMembershipFrame(Y))
        /\ (ws[Y] = "OPEN" /\ ws'[Y] # "OPEN") =>
             (StreamCloses(Y) \/ EvictionOf(Y) \/ WriteFailedOn(Y))
        /\ \A X \in Conn \ {Y} :
             MessageStep(X) =>
               /\ Y \in DOMAIN clients'
               /\ clients'[Y] = clients[Y]
               /\ MemberOf(clients', rooms', Y) = MemberOf(clients, rooms, Y)
               /\ ws'[Y] = ws[Y] \/ WriteFailedOn(Y)
    ]_vars

\* C29 witness: X, in a room with Y, sent a frame for an id that no client
\* has and was answered with an error; Y is registered, in the room, its
\* stream open
C29_Witness ==
  /\ op.kind = "message"
  /\ op.f.json /\ op.f.obj.type = "offer" /\ op.f.obj.to = UNKNOWN
  /\ op.c \in DOMAIN clients
  /\ \E Y \in DOMAIN clients \ {op.c} :
       /\ MemberOf(clients, rooms, Y) # NULL
       /\ MemberOf(clients, rooms, Y) = MemberOf(clients, rooms, op.c)
       /\ ws[Y] = "OPEN"
  /\ Len(sent) = 1 /\ sent[1].to = op.c /\ FrameType(sent[1].frame) = "error"

\* ------------------------------------------------------------- C30
\* the step serves a valid join-room of a client that is in another room,
\* for a room that is not full
SwitchStep ==
  /\ JoinStep
  /\ clients[op'.c].room # NULL
  /\ clients[op'.c].room # op'.f.obj.room.chars

\* what a switch of S from R to Q does; `told` are the members of R that
\* are written peer-left
Switch(S, R, Q, told) ==
  /\ \A B \in AlreadyIn(R, S) :
       /\ Count(sent', B, PeerLeft(S)) = IF B \in told THEN 1 ELSE 0
       /\ B \in DOMAIN clients' /\ clients'[B].room = R
  /\ IF AlreadyIn(R, S) = {}
       THEN R \notin DOMAIN rooms'
       ELSE R \in DOMAIN rooms' /\ rooms'[R] = SetDelete(rooms[R], S)
  /\ Count(sent', S, RoomLeft(R)) = 1
  /\ Count(sent', S, RoomJoined(Q)) = 1
  /\ \A i, j \in 1..Len(sent') :
       (sent'[i] = [to |-> S, frame |-> RoomLeft(R)]
          /\ sent'[j] = [to |-> S, frame |-> RoomJoined(Q)]) => i < j
  /\ clients'[S].room = Q
  /\ \A N \in DOMAIN rooms' : S \in Range(rooms'[N]) <=> N = Q
  /\ Q \in DOMAIN rooms'

\* C30 (as amended) -- switching rooms: when a client S that is a member of
\* room R sends a valid join-room for a different room Q that is not full,
\* every remaining member of R whose stream is open is written exactly one
\* peer-left{peerId: S} and the others none, the remaining members stay in
\* R, R is deleted if S was its last member, S is written room-left{R}
\* before room-joined{Q}, and after the step S is a member of Q only, by its
\* record and by the index.
C30_Switch ==
  [][ SwitchStep =>
        LET S == op'.c
            R == clients[S].room
        IN Switch(S, R, op'.f.obj.room.chars,
                  { B \in AlreadyIn(R, S) : ws[B] = "OPEN" })
    ]_vars

\* C30 as stated: ... every remaining member of R receives exactly one
\* peer-left{peerId: S} ...
C30_AsStated ==
  [][ SwitchStep =>
        LET S == op'.c
            R == clients[S].room
        IN Switch(S, R, op'.f.obj.room.chars, AlreadyIn(R, S))
    ]_vars

\* C30 witness: a client has switched from a room where a member stays,
\* who was told, to a room that had a member, who was told as well
C30_Witness ==
  /\ op.kind = "message"
  /\ op.f.json /\ op.f.obj.type = "join-room"
  /\ \E R \in DOMAIN rooms, i, j, k, l \in 1..Len(sent) :
       /\ i < j
       /\ sent[i] = [to |-> op.c, frame |-> RoomLeft(R)]
       /\ sent[j] = [to |-> op.c, frame |-> RoomJoined(op.f.obj.room.chars)]
       /\ sent[k].frame = PeerLeft(op.c) /\ sent[k].to \in Range(rooms[R])
       /\ sent[l].frame = PeerJoined(op.c)
       /\ clients[op.c].room = op.f.obj.room.chars
       /\ R # op.f.obj.room.chars

\* ------------------------------------------------------------- C31
\* the step serves a leave-room frame of a registered client that is in no
\* room; the frame passed the rate limiter
LeaveNoRoomStep ==
  /\ op = IDLE
  /\ op'.kind = "message"
  /\ hnd[op'.c] /\ op'.c \in DOMAIN clients /\ op'.allowed
  /\ op'.f.json /\ op'.f.root = "object" /\ ~op'.f.proto
  /\ op'.f.obj.type = "leave-room"
  /\ clients[op'.c].room = NULL

\* C31 -- leave-room from a client that is in no room is a silent no-op: the
\* handler writes no frame, to the sender or to anyone else, and the
\* registry, the room index and the streams are after the step what they
\* were before it.
C31_LeaveNoRoom ==
  [][ LeaveNoRoomStep =>
        /\ sent' = <<>>
        /\ clients' = clients
        /\ rooms' = rooms
        /\ ws' = ws
    ]_vars

\* C31 witness: a client with an open stream that is in no room has sent
\* leave-room while another client is in a room; nothing was written
C31_Witness ==
  /\ op.kind = "message"
  /\ op.allowed
  /\ op.f = LeaveFrame
  /\ op.c \in DOMAIN clients
  /\ ws[op.c] = "OPEN"
  /\ clients[op.c].room = NULL
  /\ sent = <<>>
  /\ \E B \in DOMAIN clients : B # op.c /\ clients[B].room # NULL /\ ws[B] = "OPEN"

\* ------------------------------------------------------------- C38
\* the `type` values of the frames the broker composes itself
BrokerTypes ==
  {"id", "room-joined", "room-left", "room-peers", "peer-joined", "peer-left", "error"}

\* the frame is the text of a JSON object / it has a `from` field
IsJsonObject(fr) == "raw" \notin DOMAIN fr
HasFrom(fr) == "from" \in DOMAIN fr /\ fr.from # ABSENT

\* the entry of `sent` was written because a client sent the frame being
\* served: the raw fallback of the catch branch, or what the relay branches
\* write to a target or to the room (the error answer to the sender is the
\* broker's own)
SentForClient(e) ==
  /\ op.kind = "message"
  /\ hnd[op.c] /\ op.c \in DOMAIN clients /\ op.allowed
  /\ \/ ~op.f.json
     \/ /\ Signaling
        /\ ~(e.to = op.c /\ FrameType(e.frame) = "error" /\ "message" \in DOMAIN e.frame)

\* C38 -- provenance of frames: every frame the broker originates itself
\* is a JSON object of one of its own types without a `from` field; every
\* JSON object written to a client because a client sent it carries a
\* `from` field, the sender's id, also when its `type` is one of the
\* broker's own; hence a JSON object received without `from` was originated
\* by the broker.
C38_Provenance ==
  \A k \in 1..Len(sent) :
    LET e == sent[k]
    IN /\ ~SentForClient(e) =>
            /\ IsJsonObject(e.frame)
            /\ ~HasFrom(e.frame)
            /\ FrameType(e.frame) \in BrokerTypes
       /\ (SentForClient(e) /\ IsJsonObject(e.frame)) =>
            /\ HasFrom(e.frame)
            /\ e.frame.from = op.c
       /\ (IsJsonObject(e.frame) /\ ~HasFrom(e.frame)) => ~SentForClient(e)

\* C38 witness: a client sent a frame of type peer-left, one of the
\* broker's own types, naming another sender; its room mate was written
\* the frame with `from` set to the real sender
C38_Witness ==
  /\ Signaling
  /\ op.f.obj.type = "peer-left"
  /\ op.f.obj.from = UNKNOWN
  /\ Len(sent) >= 1
  /\ sent[1].to # op.c
  /\ sent[1].frame.type = "peer-left"
  /\ sent[1].frame.from = op.c

\* ------------------------------------------------------------- C39
\* the frame served is a signaling frame whose `to` is the sender's own id
SelfTargeted ==
  /\ Targeted
  /\ op.f.obj.to = op.c

\* C39 -- self-targeting: a frame whose `to` is the sender's own id, sent
\* while the sender is in a room with an open stream, is written back to
\* the sender, once, with `from` = its own id, and no error is written;
\* when the sender is in no room the only frame written is
\* error{"target-unavailable-or-different-room", to: its id}, to the sender.
C39_SelfTarget ==
  SelfTargeted =>
    LET S == op.c
    IN /\ (clients[S].room # NULL /\ ws[S] = "OPEN") =>
            /\ sent = << [to |-> S, frame |-> Relayed(op.f.obj, S)] >>
            /\ sent[1].frame.from = S
            /\ FrameType(sent[1].frame) # "error"
       /\ (clients[S].room = NULL /\ ws[S] = "OPEN") =>
            sent = << [to |-> S, frame |-> TargetError(S)] >>

\* C39 witness: a client that shares its room with another one has sent an
\* offer addressed to itself and was written the offer, with its own id as
\* `from`
C39_Witness ==
  /\ SelfTargeted
  /\ op.f.obj.type = "offer"
  /\ clients[op.c].room # NULL
  /\ Len(rooms[clients[op.c].room]) >= 2
  /\ Len(sent) = 1
  /\ sent[1].to = op.c
  /\ sent[1].frame.type = "offer"
  /\ sent[1].frame.from = op.c
  /\ sent[1].frame.to = op.c

\* ------------------------------------------------------------- C32
\* the step is a forceReconnect() that closes the connector's socket, which
\* was connecting or open
ForcedCloseStep ==
  /\ socket # 0
  /\ ~socks[socket].forced
  /\ socks'[socket].forced

\* socket s was created by the reconnect timer that the close handler of a
\* socket closed by forceReconnect() had set
SecondReconnect(ss, s) == ss[s].origin # 0 /\ ss[ss[s].origin].forced

\* C32 -- forceReconnect() closes the current socket and opens exactly one
\* new socket, which becomes the connector's socket, and sets no reconnect
\* timer; the close event of the socket it closed, delivered during
\* close() or later, never leads to a socket created by automatic
\* reconnection.
C32_ForceReconnectOnce ==
  [][ /\ ForcedCloseStep =>
           /\ socks'[socket].readyState \in {"CLOSING", "CLOSED"}
           /\ Len(socks') = Len(socks) + 1
           /\ socket' = Len(socks')
           /\ timers' = timers
      /\ \A s \in 1..Len(socks') : ~SecondReconnect(socks', s)
    ]_vars

\* C32 witness: on a platform that queues close events, forceReconnect()
\* closed an open socket with auto-reconnect enabled, and after the socket
\* it opened the reconnect timer of the closed socket opened another one
C32_Witness ==
  /\ closeEvent = "queued"
  /\ \E s \in 1..Len(socks) :
       /\ SecondReconnect(socks, s)
       /\ socks[s].origin + 1 < s
       /\ socks[socks[s].origin].readyState = "CLOSED"
       /\ socket = s

\* ------------------------------------------------------------- C33
\* the step creates a socket
SocketCreated == Len(socks') > Len(socks)

\* C33 -- after disconnect() with preventReconnect = true the connector
\* performs no automatic reconnection: as long as neither connect() nor
\* forceReconnect() is called (and auto-reconnect is not enabled again), no
\* socket is created, also when a reconnect timer was pending at the time
\* of the call.
C33_NoReconnectAfterDisconnect ==
  [][ (prevented /\ SocketCreated) => socks'[Len(socks')].origin = 0 ]_vars

\* C33 witness: after disconnect(true), with auto-reconnect still disabled
\* and no connect() or forceReconnect() since, the connector's socket is one
\* that a reconnect timer created, and it is open
C33_Witness ==
  /\ prevented
  /\ ~shouldReconnect
  /\ socket # 0
  /\ socks[socket].origin # 0
  /\ socks[socket].readyState = "OPEN"

\* ------------------------------------------------------------- C34
\* the sockets that are connecting or open; each has the connector's open,
\* message, error and close handlers attached
Live == { s \in 1..Len(socks) : socks[s].readyState \in {"CONNECTING", "OPEN"} }

\* C34 -- after any number of connect() calls the connector has only one
\* websocket: at most one socket with the connector's handlers attached is
\* connecting or open.
C34_OneSocket == Cardinality(Live) <= 1

\* C34 witness: connect() was called twice in a row and nothing else; both
\* sockets have opened, and the first is no longer the connector's
C34_Witness ==
  /\ Len(socks) = 2
  /\ socket = 2
  /\ \A s \in 1..2 : socks[s].readyState = "OPEN" /\ socks[s].origin = 0 /\ ~socks[s].forced

\* ------------------------------------------------------------- C35
\* the step is a forceReconnect() of the signaling client while
\* currentRoom is set
RejoinStep ==
  /\ SocketCreated
  /\ socks'[Len(socks')].forRoom # NULL

\* socket s, if the client's forceReconnect() created it to rejoin a room
\* and it is open, has carried the join-room frame for that room
Rejoined(ss, s) ==
  (ss[s].forRoom # NULL /\ ss[s].readyState = "OPEN") => ss[s].forRoom \in ss[s].joins

\* C35 -- P2PSignalingClient.forceReconnect() rejoins the current room: if
\* currentRoom is set when it is called, no join-room frame is written to
\* the socket being closed (or to any socket that existed), and once the
\* socket that the call created is open, a join-room frame for that room
\* has been sent on it.
C35_Rejoin ==
  [][ /\ RejoinStep => \A s \in 1..Len(socks) : socks'[s].joins = socks[s].joins
      /\ \A s \in 1..Len(socks') : Rejoined(socks', s)
    ]_vars

\* C35 witness: the client, in room R1, called forceReconnect() once and
\* nothing else after connect(); the queued close event of the old socket
\* set the reconnect timer, which fired before the new socket opened; the
\* new socket is open and no join-room frame was sent on it, nor on the
\* socket of the timer
C35_Witness ==
  /\ closeEvent = "queued"
  /\ currentRoom = R1
  /\ nreg = 0
  /\ Len(socks) = 3
  /\ socks[1].forced
  /\ socks[2].forRoom = R1 /\ socks[2].readyState = "OPEN" /\ socks[2].joins = {}
  /\ socks[3].origin = 1 /\ socks[3].readyState = "OPEN" /\ socks[3].joins = {}
  /\ socket = 3
  /\ oneTimeOpenHandlers = <<>>

\* ------------------------------------------------------------- C37
\* the step is a whenReady() call of the application / an open event
WhenReadyStep == nreg' = nreg + 1
OpenStep ==
  \E s \in 1..Len(socks) :
    socks[s].readyState = "CONNECTING" /\ socks'[s].readyState = "OPEN"

\* C37 -- whenReady(callback) runs the callback exactly once: during the
\* call when the connector's socket is open, otherwise not during the call
\* but at the next open event; no callback is ever invoked a second time,
\* and none is invoked by any other step.
C37_Once ==
  [][ /\ \A n \in 1..MaxCallbacks : runs'[n] <= 1
      /\ WhenReadyStep => runs'[nreg'] = IF isConnected(Connector) THEN 1 ELSE 0
      /\ OpenStep => \A n \in 1..nreg : runs'[n] = 1
      /\ (~WhenReadyStep /\ ~OpenStep) => runs' = runs
    ]_vars

\* C37 witness: a callback registered with whenReady() while no socket was
\* open has been invoked at two open events
C37_Witness ==
  /\ nreg = 1
  /\ runs[1] = 2
  /\ Cardinality({ s \in 1..Len(socks) : socks[s].readyState \in {"OPEN", "CLOSING", "CLOSED"} }) >= 2

\* the interceptors that are patched
Patched == {i \in Interceptors : isPatched[i]}

\* C36: whatever the order in which several interceptors patched and
\* unpatched the console, a console call invokes the callback of every
\* interceptor that is patched and of no interceptor that has unpatched
C36_Unpatch == called.made => (called.who = Patched /\ ~called.overflow)

\* a console call that misses an interceptor that is still patched: one
\* that patched earlier has unpatched and put the platform's function back
C36_Witness ==
  /\ called.made
  /\ isPatched[2]
  /\ ~isPatched[1]
  /\ originalMethods[2] = 1
  /\ called.who = {}

\* no frame is in flight: the broker is between two events, and every
\* client has handled what was written to it
Delivered == op = IDLE /\ \A c \in Conn : outbox[c] = <<>>

\* the clients whose connection has stayed open since its admission
StayedOpen == {c \in DOMAIN clients : hnd[c] /\ ws[c] = "OPEN"}

\* the other members of the room the broker has client c in
Roommates(c) ==
  IF clients[c].room = NULL THEN {}
  ELSE Range(rooms[clients[c].room]) \ {c}

\* C40 -- the client's view refines the broker's state: whenever every frame
\* in flight has been delivered, roomPeers of every client whose connection
\* has stayed open is duplicate-free and holds the other members of the
\* room the broker has the client in, and nothing when it is in no room.
C40_ViewRefines ==
  Delivered =>
    \A c \in StayedOpen :
      /\ IsSet(view[c].roomPeers)
      /\ Range(view[c].roomPeers) = Roommates(c)

\* everything is delivered, a client knows a peer, and another client that
\* was admitted has gone
C40_Witness ==
  /\ Delivered
  /\ \E c \in StayedOpen, d \in Conn :
       /\ view[c].roomPeers # <<>>
       /\ hnd[d]
       /\ ws[d] = "CLOSED"

Spec == Init /\ [][Next]_vars

\* one client's rate limiter under every arrival pattern of its frames and
\* every behaviour of the clock
SpecRate == Init /\ [][NextRate]_vars

\* the broker with failing writes
SpecFault == Init /\ [][NextFault]_vars

\* the broker and the frames in flight to it, in the order they were sent
SpecFifo == Init /\ [][NextFifo]_vars

\* the client library's connector
SpecConn == Init /\ [][NextConn]_vars

\* the broker and the signaling clients of its connections
SpecView == Init /\ [][NextView]_vars

\* the console and its interceptors
SpecConsole == Init /\ [][NextConsole]_vars

====
